---- MODULE Spec2Model ----
(***************************************************************************)
(* A model of the fluent HTML builder (lib/universal/fluent-html.ts): the  *)
(* attribute and child handling of the tag functions, the HTML AST, the    *)
(* minimized and the pretty renderer and the raw policy; of the design     *)
(* systems built on it (slots, regions, layouts, page); of the in-memory   *)
(* bundler middleware; of the breadcrumbs builder's request trail; and of  *)
(* the browser side: the CX user agent, the JunxionElement base class with *)
(* the runtime's enhance(), and customElementAide.                         *)
(*                                                                         *)
(* A JavaScript string is a sequence of one-character strings, so that     *)
(* escaping, splitting, trimming and sorting are computed and not assumed. *)
(* An optional value (undefined or a value) is a sequence of length 0 or 1.*)
(***************************************************************************)
EXTENDS Integers, Sequences, FiniteSets, TLC

VARIABLES
  rawPolicy,  \* the module-level raw policy (fluent-html.ts line 50)
  held,       \* RawHtml values the calling program holds and composes further
  call,       \* the most recent operation: its name, its arguments, its outcome
  seen,       \* per render mode, the outputs obtained so far for the tree held first
  input,      \* the arguments drawn for a single call of a pure function
  ds,         \* the design system instance the program has built, with its closure state
  bundler,    \* the bundler middleware: its cache, its requests in flight, its bundle runs
  crumbs,     \* a NaturalBreadcrumbsBuilder: its #segments, and the call made on it
  agent,      \* a CX user agent in a browser: its EventSource, its posts, its diagnostics
  document,   \* a browser document holding a JunxionElement: listeners, EventSources, fetches
  customElements  \* the custom element registry of a browser, and the calls of register()

vars == <<rawPolicy, held, call, seen, input, ds, bundler, crumbs, agent, document, customElements>>

\* What neither the builder of HTML nor the design systems nor the bundler
\* touch: the breadcrumbs builder and the browser.
beyondServer == <<crumbs, agent, document, customElements>>

\* What the builder of HTML never touches.
beyondHtml == <<ds, bundler, beyondServer>>

NoDs == [kind |-> "none"]

NoBundler == [kind |-> "none"]

NoCrumbs == [kind |-> "none"]

NoAgent == [kind |-> "none"]

NoDocument == [kind |-> "none"]

NoRegistry == [kind |-> "none"]

BeyondServerIdle ==
  crumbs = NoCrumbs /\ agent = NoAgent /\ document = NoDocument /\ customElements = NoRegistry

BeyondHtmlIdle == ds = NoDs /\ bundler = NoBundler /\ BeyondServerIdle

(***************************************************************************)
(* Strings                                                                 *)
(***************************************************************************)

\* The printable ASCII characters in code order: codes 32 to 95, and 97 to 126.
AsciiLow ==
  << " ", "!", "\"", "#", "$", "%", "&", "'", "(", ")", "*", "+", ",", "-",
     ".", "/", "0", "1", "2", "3", "4", "5", "6", "7", "8", "9", ":", ";",
     "<", "=", ">", "?", "@", "A", "B", "C", "D", "E", "F", "G", "H", "I",
     "J", "K", "L", "M", "N", "O", "P", "Q", "R", "S", "T", "U", "V", "W",
     "X", "Y", "Z", "[", "\\", "]", "^", "_" >>

AsciiHigh ==
  << "a", "b", "c", "d", "e", "f", "g", "h", "i", "j", "k", "l", "m", "n",
     "o", "p", "q", "r", "s", "t", "u", "v", "w", "x", "y", "z", "{", "|",
     "}", "~" >>

\* The UTF-16 code unit of a character.
CharCode(c) ==
  CASE c = "\t" -> 9
    [] c = "\n" -> 10
    [] c = "\r" -> 13
    [] \E i \in 1..Len(AsciiLow) : AsciiLow[i] = c ->
         31 + (CHOOSE i \in 1..Len(AsciiLow) : AsciiLow[i] = c)
    [] OTHER -> 96 + (CHOOSE i \in 1..Len(AsciiHigh) : AsciiHigh[i] = c)

\* String.prototype.toLowerCase, character by character.
LowerChar(c) ==
  LET n == CharCode(c) IN IF n >= 65 /\ n <= 90 THEN AsciiHigh[n - 64] ELSE c

toLowerCase(s) == [i \in 1..Len(s) |-> LowerChar(s[i])]

\* a < b for two strings: the comparison Array.prototype.sort() makes without a
\* comparator, code unit by code unit, a proper prefix first.
RECURSIVE StrLess(_, _)
StrLess(a, b) ==
  IF b = <<>> THEN FALSE
  ELSE IF a = <<>> THEN TRUE
  ELSE IF CharCode(Head(a)) # CharCode(Head(b))
    THEN CharCode(Head(a)) < CharCode(Head(b))
    ELSE StrLess(Tail(a), Tail(b))

\* Array.prototype.sort() of an array of strings (an insertion sort: the result of
\* a sort of distinct strings does not depend on the algorithm).
RECURSIVE InsertSorted(_, _)
InsertSorted(k, sorted) ==
  IF sorted = <<>> THEN <<k>>
  ELSE IF StrLess(k, Head(sorted)) THEN <<k>> \o sorted
  ELSE <<Head(sorted)>> \o InsertSorted(k, Tail(sorted))

RECURSIVE sort(_)
sort(keys) ==
  IF keys = <<>> THEN <<>> ELSE InsertSorted(Head(keys), sort(Tail(keys)))

\* String.prototype.replaceAll(c, rep) for a one-character pattern c.
RECURSIVE replaceAll(_, _, _)
replaceAll(s, c, rep) ==
  IF Len(s) = 0 THEN <<>>
  ELSE IF Len(s) = 1 THEN (IF s[1] = c THEN rep ELSE s)
  ELSE LET mid == Len(s) \div 2
       IN replaceAll(SubSeq(s, 1, mid), c, rep) \o replaceAll(SubSeq(s, mid + 1, Len(s)), c, rep)

\* String.prototype.replaceAll("\r\n", "\n").
RECURSIVE replaceCrLf(_)
replaceCrLf(s) ==
  IF s = <<>> THEN <<>>
  ELSE IF Len(s) >= 2 /\ s[1] = "\r" /\ s[2] = "\n"
    THEN <<"\n">> \o replaceCrLf(Tail(Tail(s)))
    ELSE <<Head(s)>> \o replaceCrLf(Tail(s))

\* String.prototype.split("\n"): always at least one piece.
RECURSIVE splitAcc(_, _, _)
splitAcc(s, cur, done) ==
  IF s = <<>> THEN Append(done, cur)
  ELSE IF Head(s) = "\n" THEN splitAcc(Tail(s), <<>>, Append(done, cur))
  ELSE splitAcc(Tail(s), Append(cur, Head(s)), done)

split(s) == splitAcc(s, <<>>, <<>>)

\* Array.prototype.join(sep) of an array of strings.
RECURSIVE join(_, _)
join(parts, sep) ==
  IF parts = <<>> THEN <<>>
  ELSE IF Len(parts) = 1 THEN parts[1]
  ELSE parts[1] \o sep \o join(Tail(parts), sep)

IsWhiteSpace(c) == c \in {" ", "\t", "\n", "\r"}

RECURSIVE trimStart(_)
trimStart(s) ==
  IF s # <<>> /\ IsWhiteSpace(Head(s)) THEN trimStart(Tail(s)) ELSE s

RECURSIVE trimEnd(_)
trimEnd(s) ==
  IF s # <<>> /\ IsWhiteSpace(s[Len(s)]) THEN trimEnd(SubSeq(s, 1, Len(s) - 1)) ELSE s

\* String.prototype.trim.
trim(s) == trimEnd(trimStart(s))

\* String.prototype.includes("\n").
includesNewline(s) == \E i \in 1..Len(s) : s[i] = "\n"

\* String.prototype.repeat.
RECURSIVE repeat(_, _)
repeat(s, n) == IF n = 0 THEN <<>> ELSE s \o repeat(s, n - 1)

Digits == <<"0", "1", "2", "3", "4", "5", "6", "7", "8", "9">>

RECURSIVE NatToString(_)
NatToString(n) ==
  IF n < 10 THEN <<Digits[n + 1]>> ELSE NatToString(n \div 10) \o <<Digits[(n % 10) + 1]>>

\* String(n) of an integer number.
NumberToString(n) == IF n < 0 THEN <<"-">> \o NatToString(0 - n) ELSE NatToString(n)

(***************************************************************************)
(* Escaping                                                                *)
(***************************************************************************)

escapeHtml(value) ==
  replaceAll(
    replaceAll(
      replaceAll(
        replaceAll(
          replaceAll(value, "&", <<"&", "a", "m", "p", ";">>),
          "<", <<"&", "l", "t", ";">>),
        ">", <<"&", "g", "t", ";">>),
      "\"", <<"&", "q", "u", "o", "t", ";">>),
    "'", <<"&", "#", "3", "9", ";">>)

escapeAttr(value) == escapeHtml(value)

(***************************************************************************)
(* JavaScript values: the tag ty names the type, val holds the value       *)
(***************************************************************************)

JsString(s) == [ty |-> "string", val |-> s]
JsNumber(n) == [ty |-> "number", val |-> n]
JsBoolean(b) == [ty |-> "boolean", val |-> b]
JsNull == [ty |-> "null", val |-> 0]
JsUndefined == [ty |-> "undefined", val |-> 0]
\* A plain object used as an attribute map: its own keys in insertion order.
JsAttrs(pairs) == [ty |-> "attrs", val |-> pairs]
JsArray(items) == [ty |-> "array", val |-> items]
\* A ChildBuilder: the emit calls it makes, in order, each with its arguments.
JsBuilder(calls) == [ty |-> "function", val |-> calls]
\* A RawHtml as a child or a render part.
JsRawHtml(rh) == [ty |-> "rawhtml", val |-> rh]
\* A DomNodeLike, with its nodeType.
JsDomNode(t) == [ty |-> "domnode", val |-> t]

\* v == null
IsNullish(v) == v.ty \in {"null", "undefined"}
IsFalse(v) == v.ty = "boolean" /\ v.val = FALSE
IsTrue(v) == v.ty = "boolean" /\ v.val = TRUE

\* String(v) of a primitive.
String(v) ==
  CASE v.ty = "string" -> v.val
    [] v.ty = "number" -> NumberToString(v.val)
    [] v.ty = "boolean" ->
         IF v.val THEN <<"t", "r", "u", "e">> ELSE <<"f", "a", "l", "s", "e">>
    [] v.ty = "null" -> <<"n", "u", "l", "l">>
    [] OTHER -> <<"u", "n", "d", "e", "f", "i", "n", "e", "d">>

\* The outcome of a call: a returned value, or a thrown Error with its message.
Return(v) == [ok |-> TRUE, val |-> <<v>>, err |-> ""]
Throw(msg) == [ok |-> FALSE, val |-> <<>>, err |-> msg]

\* Object.keys(a) of an attribute map without integer-like keys.
ObjectKeys(a) == [i \in 1..Len(a.val) |-> a.val[i][1]]

\* a[k] for an own key k of a.
Get(a, k) == a.val[CHOOSE i \in 1..Len(a.val) : a.val[i][1] = k][2]

(***************************************************************************)
(* Raw policy and raw HTML                                                 *)
(***************************************************************************)

\* { ...rawPolicy, ...policy }: policy either has an own property mode (a
\* sequence of length 1 holding its value) or has none.
MergePolicy(old, policy) ==
  IF policy = <<>> THEN old ELSE [mode |-> policy[1]]

\* trustedRaw building a text node for its html.
trustedRawAsText(html) ==
  [rawHtml |-> html, ast |-> <<[kind |-> "text", text |-> html]>>]

trustedRaw(html) ==
  [rawHtml |-> html, ast |-> <<[kind |-> "raw", html |-> html]>>]

RawBlockedMessage(hint) ==
  IF hint # "" THEN <<"raw() is blocked by dev-strict policy: ", hint>>
  ELSE <<"raw() is blocked by dev-strict policy">>

\* raw without its policy check.
rawUnchecked(html, hint) == Return(trustedRaw(html))

raw(html, hint) ==
  IF rawPolicy.mode = "dev-strict" THEN Throw(RawBlockedMessage(hint))
  ELSE Return(trustedRaw(html))

(***************************************************************************)
(* Children and attributes                                                 *)
(***************************************************************************)

\* The last step of visit: a primitive that is not skipped becomes a string.
VisitPrimitive(c, out) ==
  IF IsTrue(c) THEN out ELSE Append(out, JsString(String(c)))

\* The builder branch of visit: each emit call visits its arguments in order.
RECURSIVE visit(_, _), visitEach(_, _), VisitBuilder(_, _), visitEachBackwards(_, _)

\* The loop for (const x of xs) visit(x) walking xs from its last item.
visitEachBackwards(xs, out) ==
  IF xs = <<>> THEN out
  ELSE visitEachBackwards(SubSeq(xs, 1, Len(xs) - 1), visit(xs[Len(xs)], out))

VisitBuilder(calls, out) ==
  IF calls = <<>> THEN out
  ELSE VisitBuilder(Tail(calls), visitEach(Head(calls), out))

visitEach(xs, out) ==
  IF xs = <<>> THEN out ELSE visitEach(Tail(xs), visit(Head(xs), out))

visit(c, out) ==
  IF IsNullish(c) \/ IsFalse(c) THEN out
  ELSE IF c.ty = "function" THEN VisitBuilder(c.val, out)
  ELSE IF c.ty = "array" THEN visitEach(c.val, out)
  ELSE IF c.ty = "rawhtml" THEN Append(out, c)
  ELSE IF c.ty = "domnode" THEN Append(out, c)
  ELSE VisitPrimitive(c, out)

flattenChildren(children) == visitEach(children, <<>>)

\* One key of the loop of serializeAttrs.
SerializeAttr(k, v) ==
  IF IsNullish(v) \/ IsFalse(v) THEN <<>>
  ELSE IF IsTrue(v) THEN <<" ">> \o k
  ELSE <<" ">> \o k \o <<"=", "\"">> \o escapeAttr(String(v)) \o <<"\"">>

RECURSIVE SerializeAttrsLoop(_, _)
SerializeAttrsLoop(a, keys) ==
  IF keys = <<>> THEN <<>>
  ELSE SerializeAttr(Head(keys), Get(a, Head(keys))) \o SerializeAttrsLoop(a, Tail(keys))

\* serializeAttrs(attrs?): attrs is a sequence of length 0 (undefined) or 1.
serializeAttrs(attrs) ==
  IF attrs = <<>> THEN <<>>
  ELSE SerializeAttrsLoop(attrs[1], sort(ObjectKeys(attrs[1])))

isAttrs(v) == v.ty = "attrs"

VOID_ELEMENTS ==
  { <<"a", "r", "e", "a">>, <<"b", "a", "s", "e">>, <<"b", "r">>,
    <<"c", "o", "l">>, <<"e", "m", "b", "e", "d">>, <<"h", "r">>,
    <<"i", "m", "g">>, <<"i", "n", "p", "u", "t">>, <<"l", "i", "n", "k">>,
    <<"m", "e", "t", "a">>, <<"p", "a", "r", "a", "m">>,
    <<"s", "o", "u", "r", "c", "e">>, <<"t", "r", "a", "c", "k">>,
    <<"w", "b", "r">> }

isVoidElement(t) == toLowerCase(t) \in VOID_ELEMENTS

\* attrsToAst without its sort: the keys in insertion order.
AttrKeysUnsorted(a) == ObjectKeys(a)

\* The keys attrsToAst walks.
AttrKeys(a) == sort(ObjectKeys(a))

\* attrsToAst skipping every falsy value (if (!v) continue), 0 and "" included.
AttrOmittedFalsy(v) ==
  \/ IsNullish(v) \/ IsFalse(v)
  \/ (v.ty = "number" /\ v.val = 0)
  \/ (v.ty = "string" /\ v.val = <<>>)

\* Whether attrsToAst skips the value v.
AttrOmitted(v) == IsNullish(v) \/ IsFalse(v)

RECURSIVE AttrsToAstLoop(_, _)
AttrsToAstLoop(a, keys) ==
  IF keys = <<>> THEN <<>>
  ELSE LET k == Head(keys)
           v == Get(a, k)
       IN  (IF AttrOmitted(v) THEN <<>> ELSE << <<k, v>> >>)
             \o AttrsToAstLoop(a, Tail(keys))

attrsToAst(a) == AttrsToAstLoop(a, AttrKeys(a))

\* What childrenToAst pushes for a RawHtml child.
RawHtmlToAst(rh) ==
  IF rh.ast # <<>> THEN rh.ast[1] ELSE [kind |-> "raw", html |-> rh.rawHtml]

RECURSIVE ChildrenToAstLoop(_, _)
ChildrenToAstLoop(flat, out) ==
  IF flat = <<>> THEN Return(out)
  ELSE LET c == Head(flat) IN
    IF c.ty = "string"
      THEN ChildrenToAstLoop(Tail(flat), Append(out, [kind |-> "text", text |-> c.val]))
    ELSE IF c.ty = "rawhtml"
      THEN ChildrenToAstLoop(Tail(flat), Append(out, RawHtmlToAst(c.val)))
    ELSE IF c.ty = "domnode"
      THEN Throw("Fluent server error: DomNodeLike not supported here.")
    ELSE Throw("Fluent server error: unsupported child type.")

childrenToAst(children) == ChildrenToAstLoop(flattenChildren(children), <<>>)

(***************************************************************************)
(* The minimized renderer                                                  *)
(***************************************************************************)

\* node.attrs ?? [] and node.children ?? []
OrEmpty(opt) == IF opt = <<>> THEN <<>> ELSE opt[1]

\* One attribute of an element, as both renderers write it.
AttrToText(k, v) ==
  IF IsTrue(v) THEN <<" ">> \o k
  ELSE <<" ">> \o k \o <<"=", "\"">> \o escapeAttr(String(v)) \o <<"\"">>

RECURSIVE AttrText(_)
AttrText(attrs) ==
  IF attrs = <<>> THEN <<>>
  ELSE AttrToText(Head(attrs)[1], Head(attrs)[2]) \o AttrText(Tail(attrs))

DoctypeText == <<"<", "!", "d", "o", "c", "t", "y", "p", "e", " ", "h", "t", "m", "l", ">">>

CommentText(text) == <<"<", "!", "-", "-">> \o escapeHtml(text) \o <<"-", "-", ">">>

\* case "raw" of renderAstMinimized
RawMinimized(html) == html

\* case "text" of renderAstMinimized escaping what childrenToAst had escaped.
TextMinimizedTwice(text) == escapeHtml(escapeHtml(text))

\* case "text" of renderAstMinimized
TextMinimized(text) == escapeHtml(text)

RECURSIVE renderAstMinimized(_), RenderAllMinimized(_)
\* nodes.map(renderAstMinimized).join("")
RenderAllMinimized(nodes) ==
  IF nodes = <<>> THEN <<>>
  ELSE renderAstMinimized(Head(nodes)) \o RenderAllMinimized(Tail(nodes))

renderAstMinimized(node) ==
  CASE node.kind = "fragment" -> RenderAllMinimized(node.children)
    [] node.kind = "doctype" -> DoctypeText
    [] node.kind = "comment" -> CommentText(node.text)
    [] node.kind = "raw" -> RawMinimized(node.html)
    [] node.kind = "text" -> TextMinimized(node.text)
    [] node.kind = "element" ->
         LET attrText == AttrText(OrEmpty(node.attrs)) IN
         IF node.void THEN <<"<">> \o node.tag \o attrText \o <<">">>
         ELSE <<"<">> \o node.tag \o attrText \o <<">">>
                \o RenderAllMinimized(OrEmpty(node.children))
                \o <<"<", "/">> \o node.tag \o <<">">>

(***************************************************************************)
(* The pretty renderer                                                     *)
(***************************************************************************)

indentUnit == <<" ", " ">>

\* The longest trimmed text that is inlined on the opening line.
InlineMax == 80

RawBlockTags ==
  { <<"s", "c", "r", "i", "p", "t">>, <<"s", "t", "y", "l", "e">>,
    <<"p", "r", "e">>, <<"t", "e", "x", "t", "a", "r", "e", "a">> }

isRawBlockTag(t) == toLowerCase(t) \in RawBlockTags

shouldInlineTextOnly(n) ==
  IF n.void THEN TRUE
  ELSE LET kids == OrEmpty(n.children) IN
    IF Len(kids) = 0 THEN TRUE
    ELSE IF Len(kids) # 1 THEN FALSE
    ELSE IF kids[1].kind # "text" THEN FALSE
    ELSE IF includesNewline(kids[1].text) THEN FALSE
    ELSE Len(trim(kids[1].text)) <= InlineMax

openTag(n) == <<"<">> \o n.tag \o AttrText(OrEmpty(n.attrs)) \o <<">">>

closeTag(n) == <<"<", "/">> \o n.tag \o <<">">>

\* lines.push(prefix + line) for every line of source.
RECURSIVE PushLines(_, _, _)
PushLines(lines, prefix, source) ==
  IF source = <<>> THEN lines
  ELSE PushLines(Append(lines, prefix \o Head(source)), prefix, Tail(source))

\* case "raw" of emit
EmitRaw(html, pad, lines) == PushLines(lines, pad, split(replaceCrLf(html)))

\* case "text" of emit
EmitText(text, pad, lines) == Append(lines, pad \o escapeHtml(text))

\* A text child of a raw block tag escaped as text is elsewhere.
RawBlockTextEscaped(text, pad, lines) ==
  PushLines(lines, pad \o indentUnit, split(replaceCrLf(escapeHtml(text))))

\* A text child of a raw block tag: its lines as they are, indented.
RawBlockText(text, pad, lines) ==
  PushLines(lines, pad \o indentUnit, split(replaceCrLf(text)))

\* A raw child of a raw block tag: its lines as they are, indented.
RawBlockRaw(html, pad, lines) ==
  PushLines(lines, pad \o indentUnit, split(replaceCrLf(html)))

\* Whether emit writes the element on one line with its only text child.
InlinesText(n) == ~isRawBlockTag(n.tag) /\ shouldInlineTextOnly(n)

RECURSIVE emit(_, _, _), EmitEach(_, _, _), EmitRawBlockKids(_, _, _)
\* for (const c of kids) emit(c, depth)
EmitEach(kids, depth, lines) ==
  IF kids = <<>> THEN lines
  ELSE EmitEach(Tail(kids), depth, emit(Head(kids), depth, lines))

\* The loop over the children of a raw block tag at depth.
EmitRawBlockKids(kids, depth, lines) ==
  IF kids = <<>> THEN lines
  ELSE LET c == Head(kids)
           pad == repeat(indentUnit, depth)
       IN EmitRawBlockKids(Tail(kids), depth,
            IF c.kind = "text" THEN RawBlockText(c.text, pad, lines)
            ELSE IF c.kind = "raw" THEN RawBlockRaw(c.html, pad, lines)
            ELSE emit(c, depth + 1, lines))

emit(n, depth, lines) ==
  LET pad == repeat(indentUnit, depth) IN
  CASE n.kind = "fragment" -> EmitEach(n.children, depth, lines)
    [] n.kind = "doctype" -> Append(lines, pad \o DoctypeText)
    [] n.kind = "comment" -> Append(lines, pad \o CommentText(n.text))
    [] n.kind = "raw" -> EmitRaw(n.html, pad, lines)
    [] n.kind = "text" -> EmitText(n.text, pad, lines)
    [] n.kind = "element" ->
         LET kids == OrEmpty(n.children) IN
         IF n.void THEN Append(lines, pad \o openTag(n))
         ELSE IF Len(kids) = 0 THEN Append(lines, pad \o openTag(n) \o closeTag(n))
         ELSE IF InlinesText(n)
           THEN Append(lines, pad \o openTag(n) \o escapeHtml(kids[1].text) \o closeTag(n))
         ELSE LET opened == Append(lines, pad \o openTag(n))
                  inner == IF isRawBlockTag(n.tag)
                             THEN EmitRawBlockKids(kids, depth, opened)
                             ELSE EmitEach(kids, depth + 1, opened)
              IN Append(inner, pad \o closeTag(n))

\* renderAstPretty with its lines array kept from one call to the next: the
\* lines of the earlier renderings come first.
renderAstPrettyKeepingLines(root) ==
  LET lines == emit(root, 0, <<>>)
      earlier == IF seen.pretty = <<>> THEN <<>> ELSE seen.pretty[Len(seen.pretty)]
  IN earlier \o (IF Len(lines) # 0 THEN join(lines, <<"\n">>) \o <<"\n">> ELSE <<>>)

renderAstPretty(root) ==
  LET lines == emit(root, 0, <<>>) IN
  IF Len(lines) # 0 THEN join(lines, <<"\n">>) \o <<"\n">> ELSE <<>>

(***************************************************************************)
(* Tag functions and render helpers                                        *)
(***************************************************************************)

\* el never marking the element void.
VoidFlagNever(tag) == FALSE

\* void: isVoidElement(tag) ? true : undefined
VoidFlag(tag) == isVoidElement(tag)

\* The children of the element el builds: none for a void tag.
ElChildren(tag, kids) ==
  IF isVoidElement(tag) THEN Return(<<>>)
  ELSE LET r == childrenToAst(kids) IN
       IF r.ok THEN Return(r.val) ELSE r

\* el(tag, ...args): args[1] may be the attribute map.
el(tag, args) ==
  LET hasAttrs == Len(args) > 0 /\ isAttrs(args[1])
      kids == IF hasAttrs THEN Tail(args) ELSE args
      children == ElChildren(tag, kids)
  IN IF ~children.ok THEN children
     ELSE LET ast == [kind |-> "element",
                      tag |-> tag,
                      attrs |-> IF hasAttrs THEN <<attrsToAst(args[1])>> ELSE <<>>,
                      void |-> VoidFlag(tag),
                      children |-> children.val[1]]
          IN Return([rawHtml |-> renderAstMinimized(ast), ast |-> <<ast>>])

doctype ==
  LET ast == [kind |-> "doctype"] IN [rawHtml |-> renderAstMinimized(ast), ast |-> <<ast>>]

comment(s) ==
  LET ast == [kind |-> "comment", text |-> s]
  IN [rawHtml |-> renderAstMinimized(ast), ast |-> <<ast>>]

\* One part of render: a string as it is, a RawHtml by its __rawHtml.
RenderPart(p) == IF p.ty = "string" THEN p.val ELSE p.val.rawHtml

RECURSIVE render(_)
render(parts) ==
  IF parts = <<>> THEN <<>> ELSE RenderPart(Head(parts)) \o render(Tail(parts))

\* One part of renderPretty as an AST.
PrettyPart(p) ==
  IF p.ty = "string" THEN [kind |-> "raw", html |-> p.val] ELSE RawHtmlToAst(p.val)

renderPretty(parts) ==
  renderAstPretty([kind |-> "fragment",
                   children |-> [i \in 1..Len(parts) |-> PrettyPart(parts[i])]])

(***************************************************************************)
(* Sample values                                                           *)
(***************************************************************************)

TagDiv == <<"d", "i", "v">>
TagPre == <<"p", "r", "e">>
TagBr == <<"b", "r">>
TagInput == <<"i", "n", "p", "u", "t">>
TagCustom == <<"X", "-", "B", "r">>

\* A text holding every character escapeHtml replaces.
TextSpecial == <<"<", "&", ">", "\"", "'">>
\* A text of two lines, ended by CR LF, with characters that would be escaped.
TextLines == <<"a", "&", "\r", "\n", " ", "<", "b">>
TextPlain == <<"x">>

NoCall == [op |-> "none"]
NoInput == [kind |-> "none"]
NothingSeen == [minimized |-> <<>>, pretty |-> <<>>]
PermissivePolicy == [mode |-> "permissive"]

(***************************************************************************)
(* One tag call on drawn arguments                                         *)
(***************************************************************************)

\* The most own keys an attribute map drawn here has.
MaxAttrs == 2

AttrKeySamples == { <<"a">>, <<"a", "b">>, <<"B">> }

AttrValueSamples ==
  { JsString(TextSpecial), JsBoolean(TRUE), JsBoolean(FALSE), JsNull, JsUndefined,
    JsNumber(0) }

\* The attribute maps of at most n own keys, as key/value pairs in insertion order.
RECURSIVE AttrPairSeqs(_)
AttrPairSeqs(n) ==
  IF n = 0 THEN { <<>> }
  ELSE LET shorter == AttrPairSeqs(n - 1) IN
       shorter \cup
       UNION { { Append(q, <<k, v>>) : k \in { x \in AttrKeySamples :
                                                \A i \in 1..Len(q) : q[i][1] # x },
                                       v \in AttrValueSamples }
               : q \in { r \in shorter : Len(r) = n - 1 } }

\* input({ disabled: true, hidden: false, value: "<&>\"'" }), keys as in the tests.
MixedAttrs ==
  JsAttrs(<< <<<<"d">>, JsBoolean(TRUE)>>, <<<<"h">>, JsBoolean(FALSE)>>,
             <<<<"v">>, JsString(TextSpecial)>> >>)

AttrMapSamples == { JsAttrs(q) : q \in AttrPairSeqs(MaxAttrs) } \cup { MixedAttrs }

SmallAttrs == JsAttrs(<< <<<<"i", "d">>, JsString(TextPlain)>> >>)

\* Argument lists with children, for any tag.
ChildArgSamples ==
  { <<>>,
    <<SmallAttrs>>,
    <<JsString(TextSpecial)>>,
    <<JsString(<<>>)>>,
    <<JsNull, JsBoolean(TRUE)>>,
    <<SmallAttrs, JsString(TextPlain), JsRawHtml(trustedRaw(TextSpecial))>>,
    <<JsBuilder(<< <<JsRawHtml(el(TagDiv, <<JsString(TextSpecial)>>).val[1])>> >>)>>,
    <<JsDomNode(1)>> }

TagInputs ==
  { [kind |-> "tag", tag |-> t, args |-> <<a>>] : t \in {TagDiv, TagInput}, a \in AttrMapSamples }
  \cup
  { [kind |-> "tag", tag |-> t, args |-> as] : t \in VOID_ELEMENTS \cup {TagDiv, TagPre, TagCustom},
                                as \in ChildArgSamples }

\* The orders in which the own keys of an attribute map can have been inserted.
Reorderings(a) ==
  LET n == Len(a.val) IN
  { JsAttrs([i \in 1..n |-> a.val[p[i]]]) :
      p \in { f \in [1..n -> 1..n] : \A i, j \in 1..n : i # j => f[i] # f[j] } }

HasAttrsArg(in) == Len(in.args) > 0 /\ isAttrs(in.args[1])

InitTag ==
  /\ input \in TagInputs
  /\ call = NoCall
  /\ held = <<>>
  /\ rawPolicy = PermissivePolicy
  /\ seen = NothingSeen
  /\ BeyondHtmlIdle

\* The tag function input.tag is called with input.args; the program keeps the node.
CallTag ==
  /\ call.op = "none"
  /\ LET r == el(input.tag, input.args) IN
     /\ call' = [op |-> "tag", args |-> input.args, result |-> r]
     /\ held' = IF r.ok THEN Append(held, r.val[1]) ELSE held
  /\ UNCHANGED <<rawPolicy, seen, input, beyondHtml>>

\* The same call with the keys of the attribute map inserted in another order.
CallTagReordered(b) ==
  /\ call.op = "tag"
  /\ Len(held) = 1
  /\ LET args == <<b>> \o Tail(input.args)
         r == el(input.tag, args)
     IN /\ call' = [op |-> "tag", args |-> args, result |-> r]
        /\ held' = IF r.ok THEN Append(held, r.val[1]) ELSE held
  /\ UNCHANGED <<rawPolicy, seen, input, beyondHtml>>

\* serializeAttrs is called with the attribute map of the tag call just made.
CallSerializeAttrs ==
  /\ call.op = "tag"
  /\ Len(call.args) > 0 /\ isAttrs(call.args[1])
  /\ call' = [op |-> "serializeAttrs", attrs |-> call.args[1],
              out |-> serializeAttrs(<<call.args[1]>>)]
  /\ UNCHANGED <<rawPolicy, held, seen, input, beyondHtml>>

\* The node the tag call just made returned is rendered.
CallRender ==
  /\ call.op = "tag"
  /\ call.result.ok
  /\ call' = [op |-> "render", parts |-> <<JsRawHtml(call.result.val[1])>>,
              out |-> render(<<JsRawHtml(call.result.val[1])>>)]
  /\ UNCHANGED <<rawPolicy, held, seen, input, beyondHtml>>

CallRenderPretty ==
  /\ call.op = "tag"
  /\ call.result.ok
  /\ call' = [op |-> "renderPretty", parts |-> <<JsRawHtml(call.result.val[1])>>,
              out |-> renderPretty(<<JsRawHtml(call.result.val[1])>>)]
  /\ UNCHANGED <<rawPolicy, held, seen, input, beyondHtml>>

NextTag ==
  \/ CallTag
  \/ \E b \in (IF HasAttrsArg(input) THEN Reorderings(input.args[1]) ELSE {}) :
       CallTagReordered(b)
  \/ CallSerializeAttrs
  \/ CallRender
  \/ CallRenderPretty

SpecTag == InitTag /\ [][NextTag]_vars

(***************************************************************************)
(* Properties of one tag call                                              *)
(***************************************************************************)

IsPrefix(p, s) == Len(p) <= Len(s) /\ SubSeq(s, 1, Len(p)) = p

RECURSIVE Concat(_)
Concat(ss) == IF ss = <<>> THEN <<>> ELSE Head(ss) \o Concat(Tail(ss))

\* The entity that stands for a character in escaped HTML.
EscChar(c) ==
  CASE c = "&" -> <<"&", "a", "m", "p", ";">>
    [] c = "<" -> <<"&", "l", "t", ";">>
    [] c = ">" -> <<"&", "g", "t", ";">>
    [] c = "\"" -> <<"&", "q", "u", "o", "t", ";">>
    [] c = "'" -> <<"&", "#", "3", "9", ";">>
    [] OTHER -> <<c>>

\* A text with each of its characters escaped once.
EscapedOnce(text) == Concat([i \in 1..Len(text) |-> EscChar(text[i])])

\* The strings of a set in ascending order.
Ascending(keys) == \A i, j \in 1..Len(keys) : i < j => StrLess(keys[i], keys[j])

InAscendingOrder(S) ==
  CHOOSE q \in [1..Cardinality(S) -> S] :
    (\A x \in S : \E i \in 1..Cardinality(S) : q[i] = x) /\ Ascending(q)

KeySet(a) == { a.val[i][1] : i \in 1..Len(a.val) }

\* The attribute text of a map: its keys in ascending order, each written as
\* serializeAttrs writes one key.
AttrTextInKeyOrder(a) ==
  LET keys == InAscendingOrder(KeySet(a)) IN
  Concat([i \in 1..Len(keys) |-> SerializeAttr(keys[i], Get(a, keys[i]))])

\* What the claimed law says a key with value v contributes.
AttrPiece(k, v) ==
  IF v = JsBoolean(TRUE) THEN <<" ">> \o k
  ELSE IF v \in {JsBoolean(FALSE), JsNull, JsUndefined} THEN <<>>
  ELSE <<" ">> \o k \o <<"=", "\"">> \o EscapedOnce(String(v)) \o <<"\"">>

\* The attribute text of a map by the law, its keys taken in the order given.
AttrTextByLaw(a, keys) ==
  Concat([i \in 1..Len(keys) |-> AttrPiece(keys[i], Get(a, keys[i]))])

TagCallWithAttrs ==
  call.op = "tag" /\ call.result.ok /\ Len(call.args) > 0 /\ isAttrs(call.args[1])

NodeAttrKeys(rh) ==
  LET attrs == OrEmpty(rh.ast[1].attrs) IN [i \in 1..Len(attrs) |-> attrs[i][1]]

\* C1: the attributes of a serialized element, minimized and pretty, come in ascending
\* key order whatever the insertion order of the map, so the same pairs inserted in
\* another order give the same node and the same strings.
AttrsInKeyOrder ==
  /\ TagCallWithAttrs =>
       /\ Ascending(NodeAttrKeys(call.result.val[1]))
       /\ IsPrefix(<<"<">> \o input.tag \o AttrTextInKeyOrder(input.args[1]) \o <<">">>,
                   call.result.val[1].rawHtml)
  /\ Len(held) = 2 => held[1] = held[2]
  /\ call.op = "serializeAttrs" => call.out = AttrTextInKeyOrder(input.args[1])
  /\ (call.op \in {"render", "renderPretty"} /\ HasAttrsArg(input)) =>
       IsPrefix(<<"<">> \o input.tag \o AttrTextInKeyOrder(input.args[1]) \o <<">">>,
                call.out)

\* The keys of the attribute map of the last tag call were not inserted in
\* ascending order, and the same pairs were passed before in another order.
AttrsInKeyOrderWitness ==
  /\ TagCallWithAttrs
  /\ Len(held) = 2
  /\ Len(call.args[1].val) >= 2
  /\ call.args[1] # input.args[1]
  /\ ~Ascending(ObjectKeys(call.args[1]))

\* C2: a key with value true is emitted as the bare name, a key with value false,
\* null or undefined is not emitted, every other value is emitted as
\* key="escaped value".
BooleanAttributeLaw ==
  /\ TagCallWithAttrs =>
       LET a == call.args[1]
           node == call.result.val[1].ast[1]
       IN /\ IsPrefix(<<"<">> \o input.tag \o AttrTextByLaw(a, sort(ObjectKeys(a)))
                        \o <<">">>,
                      call.result.val[1].rawHtml)
          /\ { node.attrs[1][i] : i \in 1..Len(node.attrs[1]) }
               = { a.val[i] : i \in { j \in 1..Len(a.val) :
                         a.val[j][2] \notin {JsBoolean(FALSE), JsNull, JsUndefined} } }
  /\ call.op = "serializeAttrs" =>
       call.out = AttrTextByLaw(call.attrs, sort(ObjectKeys(call.attrs)))
  /\ (call.op = "renderPretty" /\ HasAttrsArg(input)) =>
       IsPrefix(<<"<">> \o input.tag
                  \o AttrTextByLaw(input.args[1], sort(ObjectKeys(input.args[1])))
                  \o <<">">>,
                call.out)

\* A map with a true value, a false value and a value that must be escaped was
\* passed to a tag function.
BooleanAttributeLawWitness ==
  /\ TagCallWithAttrs
  /\ \E i, j, k \in 1..Len(call.args[1].val) :
       /\ call.args[1].val[i][2] = JsBoolean(TRUE)
       /\ call.args[1].val[j][2] = JsBoolean(FALSE)
       /\ call.args[1].val[k][2] = JsString(TextSpecial)

InputIsVoidTag == input.kind = "tag" /\ toLowerCase(input.tag) \in VOID_ELEMENTS

InputChildren == IF HasAttrsArg(input) THEN Tail(input.args) ELSE input.args

InputAttrs == IF HasAttrsArg(input) THEN <<input.args[1]>> ELSE <<>>

\* C4: a void tag function called with non-empty children fails at construction
\* time with a VoidElementWithChildren error and returns no node.
VoidChildrenRejected ==
  (call.op = "tag" /\ InputIsVoidTag /\ flattenChildren(InputChildren) # <<>>) =>
    (~call.result.ok /\ call.result.val = <<>>)

\* C5: for a void tag and any argument list both renderers emit the opening tag
\* <tag attrs> and nothing else: no closing tag, no child content.
VoidElementLaw ==
  InputIsVoidTag =>
    LET open == <<"<">> \o input.tag \o serializeAttrs(InputAttrs) \o <<">">> IN
    /\ call.op = "tag" => (call.result.ok /\ call.result.val[1].rawHtml = open)
    /\ call.op = "render" => call.out = open
    /\ call.op = "renderPretty" => call.out = open \o <<"\n">>

\* A void tag called with attributes and children was rendered pretty.
VoidElementLawWitness ==
  /\ InputIsVoidTag
  /\ call.op = "renderPretty"
  /\ HasAttrsArg(input)
  /\ flattenChildren(InputChildren) # <<>>

(***************************************************************************)
(* flattenChildren on nested children                                      *)
(***************************************************************************)

MaxNest == 2

ChildLeaves ==
  { JsString(<<"a">>), JsNumber(0), JsNull, JsUndefined, JsBoolean(FALSE),
    JsBoolean(TRUE), JsRawHtml(trustedRaw(<<"<">>)), JsDomNode(1) }

ChildSiblings == { JsString(<<"b">>), JsBoolean(TRUE) }

\* Children nested at most d deep in arrays and builders.
RECURSIVE NestedChildren(_)
NestedChildren(d) ==
  IF d = 0 THEN ChildLeaves
  ELSE LET inner == NestedChildren(d - 1) IN
       ChildLeaves
       \cup { JsArray(<<x, y>>) : x \in ChildSiblings, y \in inner }
       \cup { JsBuilder(<< <<y>>, <<x>> >>) : x \in ChildSiblings, y \in inner }
       \cup { JsBuilder(<< <<x, y>> >>) : x \in ChildSiblings, y \in inner }

ChildrenInputs ==
  { [kind |-> "children", children |-> cs] :
      cs \in { <<c>> : c \in NestedChildren(MaxNest) }
             \cup { <<JsNumber(1), c, JsNumber(2)>> : c \in NestedChildren(MaxNest) } }

InitFlatten ==
  /\ input \in ChildrenInputs
  /\ call = NoCall
  /\ held = <<>>
  /\ rawPolicy = PermissivePolicy
  /\ seen = NothingSeen
  /\ BeyondHtmlIdle

\* flattenChildren is called with input.children.
CallFlattenChildren ==
  /\ call.op = "none"
  /\ call' = [op |-> "flattenChildren", out |-> flattenChildren(input.children)]
  /\ UNCHANGED <<rawPolicy, held, seen, input, beyondHtml>>

\* A tag function is called with the same children.
CallTagWithChildren ==
  /\ call.op = "flattenChildren"
  /\ call' = [op |-> "tag", args |-> input.children,
              result |-> el(TagDiv, input.children)]
  /\ UNCHANGED <<rawPolicy, held, seen, input, beyondHtml>>

NextFlatten == CallFlattenChildren \/ CallTagWithChildren

SpecFlatten == InitFlatten /\ [][NextFlatten]_vars

\* What one child contributes to the flattened list: nothing for null, undefined,
\* false and true; for an array, what its items contribute, in order; for a
\* builder, what the arguments of its emit calls contribute, in order.
RECURSIVE Contribution(_)
Contribution(c) ==
  CASE c.ty \in {"null", "undefined", "boolean"} -> <<>>
    [] c.ty = "array" -> Concat([i \in 1..Len(c.val) |-> Contribution(c.val[i])])
    [] c.ty = "function" ->
         Concat([i \in 1..Len(c.val) |->
                   Concat([j \in 1..Len(c.val[i]) |-> Contribution(c.val[i][j])])])
    [] c.ty \in {"rawhtml", "domnode"} -> <<c>>
    [] OTHER -> <<JsString(String(c))>>

\* C6: flattenChildren gives the children in depth-first, left-to-right order:
\* an array is expanded in place, a builder's output stands where the builder
\* stands, and null, undefined, false and true contribute nothing.
FlattenInOrder ==
  call.op = "flattenChildren" =>
    call.out = Concat([i \in 1..Len(input.children) |-> Contribution(input.children[i])])

\* A builder nested in an array between two siblings was flattened, with skipped
\* values around it.
FlattenInOrderWitness ==
  /\ call.op = "flattenChildren"
  /\ Len(input.children) = 3
  /\ input.children[2].ty = "array"
  /\ input.children[2].val[2].ty = "function"
  /\ input.children[2].val[2].val[1][1] = JsBoolean(TRUE)
  /\ Len(call.out) = 4

(***************************************************************************)
(* A program that builds nodes, sets the raw policy and renders            *)
(***************************************************************************)

MaxDepth == 2

HtmlSamples == { TextSpecial, TextLines, TextPlain }

\* The arguments of raw and trustedRaw: the html, and the hint ("" for none).
RawArgSamples == { <<html, "">> : html \in HtmlSamples } \cup { <<TextPlain, "why">> }

\* setRawPolicy({}), setRawPolicy({ mode: "permissive" }), setRawPolicy({ mode: "dev-strict" })
PolicySamples == { <<>>, <<"permissive">>, <<"dev-strict">> }

HtmlTags == { TagDiv, TagPre, TagBr }

\* How deep elements nest in a tree.
RECURSIVE AstDepth(_), MaxAstDepth(_)
MaxAstDepth(nodes) ==
  IF nodes = <<>> THEN 0
  ELSE LET d == AstDepth(Head(nodes))
           rest == MaxAstDepth(Tail(nodes))
       IN IF d > rest THEN d ELSE rest

AstDepth(node) ==
  IF node.kind = "element" THEN 1 + MaxAstDepth(OrEmpty(node.children)) ELSE 0

\* The argument lists a tag function is called with: literals, and the node the
\* program holds as a child.
ArgLists(h) ==
  { <<>>,
    <<JsString(TextSpecial)>>,
    <<JsString(TextLines)>>,
    <<SmallAttrs, JsString(TextPlain), JsNumber(0)>> }
  \cup
  IF h # <<>> /\ AstDepth(h[1].ast[1]) < MaxDepth
    THEN { <<JsRawHtml(h[1])>>,
           <<JsString(TextSpecial), JsArray(<<JsRawHtml(h[1])>>)>> }
    ELSE {}

\* The parts render and renderPretty are called with.
PartLists(h) ==
  IF h = <<>> THEN { <<JsString(TextSpecial)>> }
  ELSE { <<JsRawHtml(h[1])>>,
         <<JsString(TextSpecial), JsRawHtml(h[1])>>,
         <<JsRawHtml(doctype), JsRawHtml(h[1])>> }

InitHtml ==
  /\ rawPolicy = PermissivePolicy
  /\ held = <<>>
  /\ call = NoCall
  /\ seen = NothingSeen
  /\ BeyondHtmlIdle
  /\ input = NoInput

\* The program goes on until it has rendered.
Running == call.op \notin {"render", "renderPretty"}

\* What the program holds after a call that returned r.
Keep(r) == IF r.ok THEN r.val ELSE held

SetRawPolicy(policy) ==
  /\ Running
  /\ rawPolicy' = MergePolicy(rawPolicy, policy)
  /\ call' = [op |-> "setRawPolicy", policy |-> policy]
  /\ UNCHANGED <<held, seen, input, beyondHtml>>

RawCall(html, hint) ==
  /\ Running
  /\ LET r == raw(html, hint) IN
     /\ call' = [op |-> "raw", html |-> html, hint |-> hint, result |-> r]
     /\ held' = Keep(r)
  /\ UNCHANGED <<rawPolicy, seen, input, beyondHtml>>

TrustedRawCall(html) ==
  /\ Running
  /\ LET r == Return(trustedRaw(html)) IN
     /\ call' = [op |-> "trustedRaw", html |-> html, result |-> r]
     /\ held' = Keep(r)
  /\ UNCHANGED <<rawPolicy, seen, input, beyondHtml>>

TagCall(tag, args) ==
  /\ Running
  /\ LET r == el(tag, args) IN
     /\ call' = [op |-> "tag", tag |-> tag, args |-> args, result |-> r]
     /\ held' = Keep(r)
  /\ UNCHANGED <<rawPolicy, seen, input, beyondHtml>>

DoctypeCall ==
  /\ Running
  /\ call' = [op |-> "doctype", result |-> Return(doctype)]
  /\ held' = <<doctype>>
  /\ UNCHANGED <<rawPolicy, seen, input, beyondHtml>>

CommentCall(s) ==
  /\ Running
  /\ call' = [op |-> "comment", text |-> s, result |-> Return(comment(s))]
  /\ held' = <<comment(s)>>
  /\ UNCHANGED <<rawPolicy, seen, input, beyondHtml>>

RenderCall(parts) ==
  /\ Running
  /\ call' = [op |-> "render", parts |-> parts, out |-> render(parts)]
  /\ UNCHANGED <<rawPolicy, held, seen, input, beyondHtml>>

RenderPrettyCall(parts) ==
  /\ Running
  /\ call' = [op |-> "renderPretty", parts |-> parts, out |-> renderPretty(parts)]
  /\ UNCHANGED <<rawPolicy, held, seen, input, beyondHtml>>

NextHtml ==
  \/ \E policy \in PolicySamples : SetRawPolicy(policy)
  \/ \E a \in RawArgSamples : RawCall(a[1], a[2])
  \/ \E html \in HtmlSamples : TrustedRawCall(html)
  \/ \E tag \in HtmlTags, args \in ArgLists(held) : TagCall(tag, args)
  \/ DoctypeCall
  \/ \E s \in { TextSpecial, TextPlain } : CommentCall(s)
  \/ \E parts \in PartLists(held) : RenderCall(parts)
  \/ \E parts \in PartLists(held) : RenderPrettyCall(parts)

SpecHtml == InitHtml /\ [][NextHtml]_vars

(***************************************************************************)
(* Properties of minimized rendering and of the raw policy                 *)
(***************************************************************************)

CallArgsAttrs == IF HasAttrsArg(call) THEN <<call.args[1]>> ELSE <<>>

CallArgsChildren == IF HasAttrsArg(call) THEN Tail(call.args) ELSE call.args

\* The minimized text of a tree in which every text is escaped once and every
\* raw html stands as it is.
RECURSIVE EscapedOnceText(_)
EscapedOnceText(node) ==
  CASE node.kind = "text" -> EscapedOnce(node.text)
    [] node.kind = "raw" -> node.html
    [] node.kind = "doctype" -> DoctypeText
    [] node.kind = "comment" ->
         <<"<", "!", "-", "-">> \o EscapedOnce(node.text) \o <<"-", "-", ">">>
    [] node.kind = "element" ->
         LET kids == OrEmpty(node.children) IN
         <<"<">> \o node.tag \o AttrText(OrEmpty(node.attrs)) \o <<">">>
           \o (IF node.void THEN <<>>
               ELSE Concat([i \in 1..Len(kids) |-> EscapedOnceText(kids[i])])
                      \o <<"<", "/">> \o node.tag \o <<">">>)

\* What a flattened child of a tag call contributes to the minimized string.
ChildText(c) ==
  IF c.ty = "string" THEN EscapedOnce(c.val) ELSE EscapedOnceText(c.val.ast[1])

\* C3: in the minimized string of a tag call every plain-string child is escaped
\* exactly once, at every depth of nesting, and what came from raw() or
\* trustedRaw() stands byte for byte.
EscapedExactlyOnce ==
  (call.op = "tag" /\ call.result.ok /\ ~isVoidElement(call.tag)) =>
    LET flat == flattenChildren(CallArgsChildren) IN
    call.result.val[1].rawHtml =
      <<"<">> \o call.tag \o serializeAttrs(CallArgsAttrs) \o <<">">>
        \o Concat([i \in 1..Len(flat) |-> ChildText(flat[i])])
        \o <<"<", "/">> \o call.tag \o <<">">>

\* A tag was called with a string of all five special characters next to an
\* element that holds, two levels down, raw html and such a string.
EscapedExactlyOnceWitness ==
  /\ call.op = "tag" /\ call.result.ok /\ ~isVoidElement(call.tag)
  /\ Len(call.args) = 2
  /\ call.args[1] = JsString(TextSpecial)
  /\ AstDepth(call.result.val[1].ast[1]) = 2
  /\ LET kid == call.result.val[1].ast[1].children[1][2] IN
     /\ kid.kind = "element"
     /\ kid.children = << << [kind |-> "text", text |-> TextSpecial],
                             [kind |-> "raw", html |-> TextSpecial] >> >>

IsConsistent(rh) == rh.ast # <<>> /\ rh.rawHtml = renderAstMinimized(rh.ast[1])

\* C8: the __rawHtml of every RawHtml a tag function, doctype(), comment() or
\* trustedRaw() returns is the minimized rendering of its __ast, at every depth,
\* and render() is the concatenation of these strings.
CachedStringIsRendering ==
  /\ \A i \in 1..Len(held) : IsConsistent(held[i])
  /\ (call.op \in {"tag", "doctype", "comment", "trustedRaw"} /\ call.result.ok) =>
       IsConsistent(call.result.val[1])
  /\ call.op = "render" =>
       call.out = Concat([i \in 1..Len(call.parts) |->
                            IF call.parts[i].ty = "string" THEN call.parts[i].val
                            ELSE renderAstMinimized(call.parts[i].val.ast[1])])

\* doctype() and an element nesting two deep with raw html inside were rendered.
CachedStringIsRenderingWitness ==
  /\ call.op = "render"
  /\ Len(call.parts) = 2
  /\ call.parts[1] = JsRawHtml(doctype)
  /\ AstDepth(held[1].ast[1]) = 2
  /\ \E i \in 1..Len(held[1].ast[1].children[1]) :
       LET kid == held[1].ast[1].children[1][i] IN
       /\ kid.kind = "element"
       /\ kid.children # <<>>
       /\ \E j \in 1..Len(kid.children[1]) : kid.children[1][j].kind = "raw"

\* C9: while the mode is dev-strict raw() throws and returns no node and
\* trustedRaw() returns its node; in permissive mode raw(html) returns what
\* trustedRaw(html) returns. The mode is the one the last setRawPolicy with a
\* mode has set.
RawPolicyLaw ==
  /\ (call.op = "raw" /\ rawPolicy.mode = "dev-strict") =>
       (~call.result.ok /\ call.result.val = <<>>)
  /\ (call.op = "raw" /\ rawPolicy.mode = "permissive") =>
       call.result = Return(trustedRaw(call.html))
  /\ call.op = "trustedRaw" =>
       /\ call.result.ok
       /\ call.result.val[1].rawHtml = call.html
       /\ call.result.val[1].ast = <<[kind |-> "raw", html |-> call.html]>>
  /\ call.op = "setRawPolicy" =>
       (call.policy # <<>> => rawPolicy.mode = call.policy[1])
  /\ rawPolicy.mode \in {"permissive", "dev-strict"}

\* raw() threw under dev-strict while the program holds a node.
RawPolicyLawWitness ==
  /\ call.op = "raw"
  /\ rawPolicy.mode = "dev-strict"
  /\ ~call.result.ok
  /\ held # <<>>

(***************************************************************************)
(* Properties of pretty rendering of script, style, pre and textarea       *)
(***************************************************************************)

\* s without the carriage return of every CR LF pair.
WithoutCrBeforeLf(s) ==
  LET keep(i) == ~(s[i] = "\r" /\ i < Len(s) /\ s[i + 1] = "\n")
      F[i \in 0..Len(s)] ==
        IF i = 0 THEN <<>> ELSE IF keep(i) THEN Append(F[i - 1], s[i]) ELSE F[i - 1]
  IN F[Len(s)]

\* The lines of s: the stretches between its line feeds.
RECURSIVE LinesOf(_)
LinesOf(s) ==
  IF \A i \in 1..Len(s) : s[i] # "\n" THEN <<s>>
  ELSE LET i == CHOOSE k \in 1..Len(s) :
                  s[k] = "\n" /\ \A j \in 1..(k - 1) : s[j] # "\n"
       IN <<SubSeq(s, 1, i - 1)>> \o LinesOf(SubSeq(s, i + 1, Len(s)))

Spaces(n) == [i \in 1..n |-> " "]

\* The lines of content as they are, each behind the indentation of depth.
VerbatimLines(content, depth) ==
  LET ls == LinesOf(WithoutCrBeforeLf(content)) IN
  [i \in 1..Len(ls) |-> Spaces(2 * depth) \o ls[i]]

\* The text of every line, each line ended by a line feed.
LinesText(lines) == Concat([i \in 1..Len(lines) |-> lines[i] \o <<"\n">>])

\* A script, style, pre or textarea element that has content.
HasRawBlockContent(n) ==
  /\ n.kind = "element"
  /\ toLowerCase(n.tag) \in RawBlockTags
  /\ ~n.void
  /\ OrEmpty(n.children) # <<>>

\* The pretty lines of a tree in which the direct text and raw children of
\* script, style, pre and textarea stand verbatim one level deeper and every
\* other node is written as emit writes it.
RECURSIVE DirectContentVerbatim(_, _)
DirectContentVerbatim(n, depth) ==
  IF n.kind # "element" \/ n.void \/ OrEmpty(n.children) = <<>> \/ InlinesText(n)
    THEN emit(n, depth, <<>>)
  ELSE LET kids == n.children[1]
           inner(c) ==
             IF HasRawBlockContent(n) /\ c.kind = "text" THEN VerbatimLines(c.text, depth + 1)
             ELSE IF HasRawBlockContent(n) /\ c.kind = "raw"
               THEN VerbatimLines(c.html, depth + 1)
             ELSE DirectContentVerbatim(c, depth + 1)
       IN <<Spaces(2 * depth) \o openTag(n)>>
            \o Concat([i \in 1..Len(kids) |-> inner(kids[i])])
            \o <<Spaces(2 * depth) \o closeTag(n)>>

\* The source of a node: its serialization with nothing escaped.
RECURSIVE SourceText(_)
SourceText(node) ==
  CASE node.kind = "text" -> node.text
    [] node.kind = "raw" -> node.html
    [] node.kind = "doctype" -> DoctypeText
    [] node.kind = "comment" -> <<"<", "!", "-", "-">> \o node.text \o <<"-", "-", ">">>
    [] node.kind = "element" ->
         LET kids == OrEmpty(node.children) IN
         openTag(node)
           \o (IF node.void THEN <<>>
               ELSE Concat([i \in 1..Len(kids) |-> SourceText(kids[i])]) \o closeTag(node))

\* The pretty lines of a tree in which all the content of script, style, pre and
\* textarea stands verbatim one level deeper.
RECURSIVE AllContentVerbatim(_, _)
AllContentVerbatim(n, depth) ==
  IF n.kind # "element" \/ n.void \/ OrEmpty(n.children) = <<>> \/ InlinesText(n)
    THEN emit(n, depth, <<>>)
  ELSE LET kids == n.children[1]
           inner(c) ==
             IF HasRawBlockContent(n) THEN VerbatimLines(SourceText(c), depth + 1)
             ELSE AllContentVerbatim(c, depth + 1)
       IN <<Spaces(2 * depth) \o openTag(n)>>
            \o Concat([i \in 1..Len(kids) |-> inner(kids[i])])
            \o <<Spaces(2 * depth) \o closeTag(n)>>

WithoutLayout(s) == SelectSeq(s, LAMBDA c : c \notin {" ", "\n", "\r"})

\* C27: each text node is escaped the same way by the minimized and the pretty
\* renderer, text children of script, style, pre and textarea included: but
\* for layout, the pretty rendering of any parts is their minimized rendering.
SameEscapingInBothModes ==
  call.op = "renderPretty" =>
    WithoutLayout(call.out) = WithoutLayout(render(call.parts))

(***************************************************************************)
(* A program that renders one tree again and again                         *)
(***************************************************************************)

MaxRenders == 2

\* The nodes the program may hold: tag calls on literals and on smaller nodes.
TreeSamples ==
  { el(tag, args).val[1] :
      tag \in HtmlTags,
      args \in UNION { ArgLists(h) :
                 h \in { <<>>, <<trustedRaw(TextLines)>>, <<comment(TextSpecial)>>,
                         <<el(TagDiv, <<JsString(TextSpecial)>>).val[1]>>,
                         <<el(TagPre, <<JsString(TextLines)>>).val[1]>> } } }

InitRender ==
  /\ held \in { <<t>> : t \in TreeSamples }
  /\ rawPolicy = PermissivePolicy
  /\ call = NoCall
  /\ seen = NothingSeen
  /\ BeyondHtmlIdle
  /\ input = NoInput

\* The tree the program holds is rendered minimized, as el does for a new node.
RenderAstMinimizedCall ==
  /\ Len(seen.minimized) < MaxRenders
  /\ LET out == renderAstMinimized(held[1].ast[1]) IN
     /\ call' = [op |-> "renderAstMinimized", out |-> out]
     /\ seen' = [seen EXCEPT !.minimized = Append(@, out)]
  /\ UNCHANGED <<rawPolicy, held, input, beyondHtml>>

\* renderPretty(held)
RenderAstPrettyCall ==
  /\ Len(seen.pretty) < MaxRenders
  /\ LET out == renderPretty(<<JsRawHtml(held[1])>>) IN
     /\ call' = [op |-> "renderPretty", parts |-> <<JsRawHtml(held[1])>>, out |-> out]
     /\ seen' = [seen EXCEPT !.pretty = Append(@, out)]
  /\ UNCHANGED <<rawPolicy, held, input, beyondHtml>>

\* setRawPolicy between two renderings.
SetRawPolicyBetween(policy) ==
  /\ rawPolicy' = MergePolicy(rawPolicy, policy)
  /\ call' = [op |-> "setRawPolicy", policy |-> policy]
  /\ UNCHANGED <<held, seen, input, beyondHtml>>

\* A tag call between two renderings; the program drops its node.
TagCallBetween(tag, args) ==
  /\ call' = [op |-> "tag", tag |-> tag, args |-> args, result |-> el(tag, args)]
  /\ UNCHANGED <<rawPolicy, held, seen, input, beyondHtml>>

\* render of something else between two renderings.
RenderBetween(parts) ==
  /\ call' = [op |-> "render", parts |-> parts, out |-> render(parts)]
  /\ UNCHANGED <<rawPolicy, held, seen, input, beyondHtml>>

NextRender ==
  \/ RenderAstMinimizedCall
  \/ RenderAstPrettyCall
  \/ \E policy \in PolicySamples : SetRawPolicyBetween(policy)
  \/ \E tag \in {TagDiv, TagBr} : TagCallBetween(tag, <<JsString(TextLines), JsRawHtml(held[1])>>)
  \/ RenderBetween(<<JsString(TextSpecial), JsRawHtml(doctype)>>)

SpecRender == InitRender /\ [][NextRender]_vars

JsObject(pairs) == [ty |-> "object", val |-> pairs]

\* A slot builder (ctx) => out; id tells one builder from another.
SlotBuilder(id, out) == [ty |-> "function", id |-> id, out |-> out]

HasOwn(o, k) == \E i \in 1..Len(o.val) : o.val[i][1] = k

\* typeof o[k] === "function"
IsCallable(o, k) == HasOwn(o, k) /\ Get(o, k).ty = "function"

\* o[k] read as a condition, for a slot that holds a builder or undefined.
IsSet(o, k) == HasOwn(o, k) /\ ~IsNullish(Get(o, k))

\* { ...o, [k]: v }
Put(o, k, v) ==
  IF HasOwn(o, k)
  THEN [o EXCEPT !.val = [i \in 1..Len(o.val) |-> IF o.val[i][1] = k THEN <<k, v>> ELSE o.val[i]]]
  ELSE [o EXCEPT !.val = Append(o.val, <<k, v>>)]

\* o.k: the value of the property, undefined when o has no such property.
Prop(o, k) == IF HasOwn(o, k) THEN Get(o, k) ELSE JsUndefined

\* slots({ required, optional })
slots(required, optional) == [required |-> required, optional |-> optional]

SlotNames(spec) ==
  {spec.required[i] : i \in 1..Len(spec.required)} \cup
  {spec.optional[i] : i \in 1..Len(spec.optional)}

\* The conditions of section 7, each with the names it carries.
NoError == [cond |-> "none", name |-> "", owner |-> ""]
MissingRequiredSlot(slotName, ownerName) ==
  [cond |-> "MissingRequiredSlot", name |-> slotName, owner |-> ownerName]
UnknownSlot(slotName, ownerName) ==
  [cond |-> "UnknownSlot", name |-> slotName, owner |-> ownerName]
UnknownRegion(name) == [cond |-> "UnknownRegion", name |-> name, owner |-> ""]
UnknownLayout(name) == [cond |-> "UnknownLayout", name |-> name, owner |-> ""]

\* The outcome of a render step: what it returned or the condition it failed
\* with, and the slot builders invoked so far, in the order of their calls.
Rendered(v, log) == [ok |-> TRUE, val |-> <<v>>, err |-> NoError, log |-> log]
Failed(e, log) == [ok |-> FALSE, val |-> <<>>, err |-> e, log |-> log]

\* The start of a render function, with the builders invoked before it.
Start(log) == Rendered(JsNull, log)

\* s.k is not a function
TypeError(k) == [cond |-> "TypeError", name |-> k, owner |-> ""]

\* s.k(ctx), evaluated after prev: nothing when prev threw; the call throws
\* when s.k is not a function, else the builder runs and the call is logged.
Invoke(s, k, prev) ==
  IF ~prev.ok THEN prev
  ELSE IF ~IsCallable(s, k) THEN Failed(TypeError(k), prev.log)
  ELSE Rendered(Get(s, k).out, Append(prev.log, Get(s, k).id))

\* s.k ? s.k(ctx) : null, evaluated after prev.
InvokeIfSet(s, k, prev) ==
  IF ~prev.ok THEN prev
  ELSE IF IsSet(s, k) THEN Invoke(s, k, prev) ELSE Rendered(JsNull, prev.log)

\* What a render function evaluates on its way, from the first argument of
\* its element to the last: s.k(ctx), s.k ? s.k(ctx) : null, or
\* api.region(name, subslots).
SlotStep(k) == [step |-> "slot", key |-> k]
OptionalSlotStep(k) == [step |-> "slotIfSet", key |-> k]
RegionStep(name, subslots) == [step |-> "region", name |-> name, subslots |-> subslots]

RECURSIVE apiRegion(_, _, _, _)

\* One step of a render function of design system d on the slots s, the
\* builders in log invoked before it.
StepResult(d, s, step, log) ==
  CASE step.step = "slot" -> Invoke(s, step.key, Start(log))
    [] step.step = "slotIfSet" -> InvokeIfSet(s, step.key, Start(log))
    [] step.step = "region" -> apiRegion(d, step.name, step.subslots, log)

\* No step evaluated yet.
Begin(log) == Rendered(<<>>, log)

\* The values of the steps done with that of the next one, or the condition
\* the next one raised.
Then(done, r) == IF ~r.ok THEN r ELSE Rendered(Append(done.val[1], r.val[1]), r.log)

\* The steps evaluated in turn: the values they returned, in their order, or
\* the first condition raised, which ends the evaluation.
RECURSIVE InTurn(_, _, _, _)
InTurn(d, s, steps, done) ==
  IF steps = <<>> \/ ~done.ok THEN done
  ELSE InTurn(d, s, Tail(steps), Then(done, StepResult(d, s, Head(steps), done.log)))

\* The validation step of section 4.3 on a supplied slot map: the resolved
\* slots, or the condition raised.
ValidateSlots(spec, ownerName, supplied, unknownSlotMode) ==
  LET missing == SelectSeq(spec.required, LAMBDA k : ~IsCallable(supplied, k))
      unknown == SelectSeq(ObjectKeys(supplied), LAMBDA k : k \notin SlotNames(spec))
  IN IF missing # <<>> THEN Failed(MissingRequiredSlot(missing[1], ownerName), <<>>)
     ELSE IF unknown # <<>> /\ unknownSlotMode = "throw"
       THEN Failed(UnknownSlot(unknown[1], ownerName), <<>>)
     ELSE Rendered(JsObject(SelectSeq(supplied.val, LAMBDA p : p[1] \in SlotNames(spec))), <<>>)

\* A call h.tag(...args) of a tag function, yet to be made: the tag functions
\* are pure, so a render function is written as the calls it makes, and Build
\* makes them, the innermost first, when the page is put together.
h(tagName, args) == [ty |-> "h", tag |-> tagName, args |-> args]

\* The RawHtml of an expression of tag function calls, none of which throws.
RECURSIVE Build(_)
RECURSIVE BuildEach(_)
BuildEach(vs) ==
  IF vs = <<>> THEN <<>> ELSE <<Build(Head(vs))>> \o BuildEach(Tail(vs))

\* The call of one tag function on arguments already built.
BuildEl(tag, args) ==
  IF Len(args) >= 0 THEN JsRawHtml(el(tag, args).val[1]) ELSE JsNull

Build(v) ==
  IF v.ty = "h" THEN BuildEl(v.tag, BuildEach(v.args))
  ELSE IF v.ty = "array" THEN JsArray(BuildEach(v.val))
  ELSE v

\* The unknown-slot policy a design system runs under: throw unless its
\* policies say otherwise.
UnknownSlotMode(d) ==
  IF d.policies.dev = <<>> THEN "throw" ELSE d.policies.dev[1].unknownSlotMode

(***************************************************************************)
(* The starter design system (lib/universal/fluent-ds-starter.ts)          *)
(***************************************************************************)

picoCssUrl ==
  <<"h", "t", "t", "p", "s", ":", "/", "/", "c", "d", "n", ".", "j", "s", "d", "e", "l", "i", "v", "r", ".", "n", "e", "t", "/", "n", "p", "m", "/", "@", "p", "i", "c", "o", "c", "s", "s", "/", "p", "i", "c", "o", "@", "2", "/", "c", "s", "s", "/", "p", "i", "c", "o", ".", "m", "i", "n", ".", "c", "s", "s">>

KindRegion == <<"r", "e", "g", "i", "o", "n">>
KindLayout == <<"l", "a", "y", "o", "u", "t">>

\* naming of the starter and of the corpus design system.
elemIdValue(suggested, kind) == kind \o <<"-">> \o suggested
className(suggested, kind) == kind \o <<"-">> \o suggested

\* ctx.cls(name) in the render function of a region or layout: the class the
\* naming strategy gives the name for the kind of the owner.
cls(ctx, suggested) == className(suggested, ctx.kind)

\* { class: ctx.cls(name) }
ClassAttrs(ctx, suggested) == JsAttrs(<< <<<<"c", "l", "a", "s", "s">>, JsString(cls(ctx, suggested))>> >>)

\* { class: ctx.cls(name), id: ctx.naming.elemIdValue(idName, kind) }
ClassIdAttrs(ctx, suggested, idName, kind) ==
  JsAttrs(<< <<<<"c", "l", "a", "s", "s">>, JsString(cls(ctx, suggested))>>,
             <<<<"i", "d">>, JsString(elemIdValue(idName, kind))>> >>)

\* The slots of starterMainRegion.
starterMainSlots == slots(<<"title", "content">>, <<"lead">>)

\* The slots of starterLayout, were content declared optional.
starterLayoutSlotsContentOptional == slots(<<"title">>, <<"lead", "content">>)

\* The slots of starterLayout.
starterLayoutSlots == slots(<<"title", "content">>, <<"lead">>)

\* The lead child of main, were its wrapper built whether or not lead is set.
StarterLeadAlwaysWrapped(ctx, s, lead) ==
  h(<<"d", "i", "v">>, <<ClassAttrs(ctx, <<"l", "e", "a", "d">>), lead>>)

\* s.lead ? h.div({ class: ctx.cls("lead") }, s.lead(ctx)) : null
StarterLead(ctx, s, lead) ==
  IF IsSet(s, "lead") THEN h(<<"d", "i", "v">>, <<ClassAttrs(ctx, <<"l", "e", "a", "d">>), lead>>) ELSE JsNull

\* The render function of Main, were its arguments evaluated from the last.
starterMainRegionRenderFromLast(ctx, s, log) ==
  LET r == InTurn(NoDs, s,
                  << SlotStep("content"),
                     OptionalSlotStep("lead"),
                     SlotStep("title") >>,
                  Begin(log))
      content == r.val[1][1]
      lead == r.val[1][2]
      title == r.val[1][3]
  IN IF ~r.ok THEN r
     ELSE Rendered(
       h(<<"m", "a", "i", "n">>,
         << ClassIdAttrs(ctx, <<"m", "a", "i", "n">>, <<"m", "a", "i", "n">>, KindRegion),
            h(<<"h", "1">>, <<title>>),
            StarterLead(ctx, s, lead),
            h(<<"s", "e", "c", "t", "i", "o", "n">>, <<ClassAttrs(ctx, <<"c", "o", "n", "t", "e", "n", "t">>), content>>) >>),
       r.log)

\* starterMainRegion.render: the arguments of h.main are evaluated from the
\* first to the last, and with them the slot builders they call.
starterMainRegionRender(ctx, s, log) ==
  LET r == InTurn(NoDs, s,
                  << SlotStep("title"),
                     OptionalSlotStep("lead"),
                     SlotStep("content") >>,
                  Begin(log))
      title == r.val[1][1]
      lead == r.val[1][2]
      content == r.val[1][3]
  IN IF ~r.ok THEN r
     ELSE Rendered(
       h(<<"m", "a", "i", "n">>,
         << ClassIdAttrs(ctx, <<"m", "a", "i", "n">>, <<"m", "a", "i", "n">>, KindRegion),
            h(<<"h", "1">>, <<title>>),
            StarterLead(ctx, s, lead),
            h(<<"s", "e", "c", "t", "i", "o", "n">>, <<ClassAttrs(ctx, <<"c", "o", "n", "t", "e", "n", "t">>), content>>) >>),
       r.log)

starterMainRegion ==
  [name |-> "Main", slots |-> starterMainSlots, render |-> "starterMainRegion"]

starterLayout ==
  [name |-> "Starter", slots |-> starterLayoutSlots, headSlots |-> slots(<<>>, <<"title">>),
   render |-> "starterLayout"]

WrappersOff == [wrappers |-> [enabled |-> FALSE], dev |-> <<>>]

PicoCss == [mountPoint |-> picoCssUrl, mimeType |-> "text/css", as |-> ""]

\* createDesignSystem(name, naming)...build(): the registry page() reads.
starterDesignSystem ==
  [name |-> "starter-ds",
   policies |-> WrappersOff,
   uaDependencies |-> <<PicoCss>>,
   regions |-> <<starterMainRegion>>,
   layouts |-> <<starterLayout>>,
   defaultHead |-> JsObject(<<>>)]

(***************************************************************************)
(* The corpus design system (lib/universal/fluent-ds-corpus.ts)            *)
(***************************************************************************)

corpusJsUrl ==
  <<"h", "t", "t", "p", "s", ":", "/", "/", "c", "d", "n", ".", "j", "s", "d", "e", "l", "i", "v", "r", ".", "n", "e", "t", "/", "n", "p", "m", "/", "@", "c", "o", "r", "p", "u", "s", "-", "d", "s", "/", "c", "l", "i", "e", "n", "t", "@", "0", "/", "d", "i", "s", "t", "/", "c", "o", "r", "p", "u", "s", ".", "m", "i", "n", ".", "j", "s">>

\* h.attrs(...parts): the entries of each part assigned in turn.
RECURSIVE AssignEntries(_, _)
AssignEntries(out, pairs) ==
  IF pairs = <<>> THEN out
  ELSE AssignEntries(Put(out, Head(pairs)[1], Head(pairs)[2]), Tail(pairs))

RECURSIVE AttrsLoop(_, _)
AttrsLoop(out, parts) ==
  IF parts = <<>> THEN out
  ELSE AttrsLoop(AssignEntries(out, Head(parts).val), Tail(parts))

attrs(parts) == AttrsLoop(JsAttrs(<<>>), parts)

\* h.attrs({ id: elementId }, { class: ctx.cls(name) }) of a corpus region.
IdClassAttrs(ctx, suggested) ==
  attrs(<< JsAttrs(<< <<<<"i", "d">>, JsString(elemIdValue(suggested, KindRegion))>> >>),
           ClassAttrs(ctx, suggested) >>)

\* optionalSlots(slots): the entries whose value is not undefined.
optionalSlots(pairs) == JsObject(SelectSeq(pairs, LAMBDA p : p[2].ty # "undefined"))

\* cond ? node : null
OrNull(cond, node) == IF cond THEN node ELSE JsNull

corpusHeaderRegionRender(ctx, s, log) ==
  LET r == InTurn(NoDs, s,
                  << SlotStep("title"),
                     OptionalSlotStep("globalNav"),
                     OptionalSlotStep("searchBox") >>,
                  Begin(log))
      title == r.val[1][1]
      globalNav == r.val[1][2]
      searchBox == r.val[1][3]
  IN IF ~r.ok THEN r
     ELSE Rendered(
       h(<<"h", "e", "a", "d", "e", "r">>,
         << IdClassAttrs(ctx, <<"h", "e", "a", "d", "e", "r">>),
            h(<<"d", "i", "v">>,
              << ClassAttrs(ctx, <<"h", "e", "a", "d", "e", "r", "_", "_", "r", "o", "w">>),
                 h(<<"d", "i", "v">>, <<ClassAttrs(ctx, <<"h", "e", "a", "d", "e", "r", "_", "_", "t", "i", "t", "l", "e">>), title>>),
                 OrNull(IsSet(s, "globalNav"),
                        h(<<"n", "a", "v">>, <<ClassAttrs(ctx, <<"h", "e", "a", "d", "e", "r", "_", "_", "g", "l", "o", "b", "a", "l", "-", "n", "a", "v">>), globalNav>>)),
                 OrNull(IsSet(s, "searchBox"),
                        h(<<"d", "i", "v">>, <<ClassAttrs(ctx, <<"h", "e", "a", "d", "e", "r", "_", "_", "s", "e", "a", "r", "c", "h">>), searchBox>>)) >>) >>),
       r.log)

corpusMainRegionRender(ctx, s, log) ==
  LET r == InTurn(NoDs, s,
                  << SlotStep("navSubject"),
                     SlotStep("navTree"),
                     SlotStep("content"),
                     OptionalSlotStep("pageMeta"),
                     OptionalSlotStep("toc") >>,
                  Begin(log))
      navSubject == r.val[1][1]
      navTree == r.val[1][2]
      content == r.val[1][3]
      pageMeta == r.val[1][4]
      toc == r.val[1][5]
  IN IF ~r.ok THEN r
     ELSE Rendered(
       h(<<"m", "a", "i", "n">>,
         << IdClassAttrs(ctx, <<"m", "a", "i", "n">>),
            h(<<"d", "i", "v">>,
              << ClassAttrs(ctx, <<"m", "a", "i", "n", "_", "_", "g", "r", "i", "d">>),
                 h(<<"a", "s", "i", "d", "e">>,
                   << ClassAttrs(ctx, <<"m", "a", "i", "n", "_", "_", "n", "a", "v">>),
                      h(<<"d", "i", "v">>, <<ClassAttrs(ctx, <<"m", "a", "i", "n", "_", "_", "s", "u", "b", "j", "e", "c", "t">>), navSubject>>),
                      h(<<"d", "i", "v">>, <<ClassAttrs(ctx, <<"m", "a", "i", "n", "_", "_", "t", "r", "e", "e">>), navTree>>) >>),
                 h(<<"s", "e", "c", "t", "i", "o", "n">>,
                   << ClassAttrs(ctx, <<"m", "a", "i", "n", "_", "_", "c", "o", "n", "t", "e", "n", "t">>),
                      content,
                      OrNull(IsSet(s, "pageMeta"),
                             h(<<"d", "i", "v">>, <<ClassAttrs(ctx, <<"m", "a", "i", "n", "_", "_", "m", "e", "t", "a">>), pageMeta>>)) >>),
                 OrNull(IsSet(s, "toc"),
                        h(<<"a", "s", "i", "d", "e">>,
                          << ClassAttrs(ctx, <<"m", "a", "i", "n", "_", "_", "t", "o", "c">>),
                             h(<<"d", "i", "v">>, <<ClassAttrs(ctx, <<"m", "a", "i", "n", "_", "_", "t", "o", "c", "-", "t", "i", "t", "l", "e">>),
                                         JsString(<<"O", "n", " ", "t", "h", "i", "s", " ", "p", "a", "g", "e">>)>>),
                             toc >>)) >>) >>),
       r.log)

corpusFooterRegionRender(ctx, s, log) ==
  LET r == InTurn(NoDs, s,
                  << OptionalSlotStep("content") >>,
                  Begin(log))
      content == r.val[1][1]
  IN IF ~r.ok THEN r
     ELSE Rendered(
       h(<<"f", "o", "o", "t", "e", "r">>,
         <<IdClassAttrs(ctx, <<"f", "o", "o", "t", "e", "r">>), content>>),
       r.log)

corpusHeaderRegion ==
  [name |-> "Header", slots |-> slots(<<"title">>, <<"globalNav", "searchBox">>),
   render |-> "corpusHeaderRegion"]

corpusMainRegion ==
  [name |-> "Main",
   slots |-> slots(<<"navSubject", "navTree", "content">>, <<"toc", "pageMeta">>),
   render |-> "corpusMainRegion"]

corpusFooterRegion ==
  [name |-> "Footer", slots |-> slots(<<>>, <<"content">>), render |-> "corpusFooterRegion"]

docSlots ==
  slots(<<"title", "navSubject", "navTree", "content">>,
        <<"toc", "pageMeta", "globalNav", "searchBox", "footer">>)

docHeadSlots == slots(<<>>, <<"title", "head">>)

docsShellLayout ==
  [name |-> "DocsShell", slots |-> docSlots, headSlots |-> docHeadSlots,
   render |-> "docsShellLayout"]

docPageLayout ==
  [name |-> "DocPage", slots |-> docSlots, headSlots |-> docHeadSlots,
   render |-> "docPageLayout"]

docLandingLayout ==
  [name |-> "DocLanding",
   slots |-> slots(<<"title", "hero", "sections">>,
                   <<"globalNav", "searchBox", "featured", "footer">>),
   headSlots |-> docHeadSlots,
   render |-> "docLandingLayout"]

CorpusJs ==
  [mountPoint |-> corpusJsUrl, mimeType |-> "application/javascript", as |-> "module"]

\* The uaDependencies of the corpus design system, were the script listed first.
corpusUaDependenciesScriptFirst == <<CorpusJs, PicoCss>>

corpusUaDependencies == <<PicoCss, CorpusJs>>

corpusDesignSystem ==
  [name |-> "corpus-ds",
   policies |-> WrappersOff,
   uaDependencies |-> corpusUaDependencies,
   regions |-> <<corpusHeaderRegion, corpusMainRegion, corpusFooterRegion>>,
   layouts |-> <<docsShellLayout, docPageLayout, docLandingLayout>>,
   defaultHead |-> JsObject(<<>>)]

(***************************************************************************)
(* The natural design system (lib/natural-html/design-system/natural.ts)   *)
(* and the canonical one (lib/design-system/canonical.ts).  The style      *)
(* attribute ctx.css(...) gives the regions of the natural design system   *)
(* is the engine's and is left out of the elements here.                   *)
(***************************************************************************)

contextHeaderRegion ==
  [name |-> "ContextHeader", slots |-> slots(<<"content">>, <<>>), render |-> "naturalRegion",
   tag |-> <<"h", "e", "a", "d", "e", "r">>, attrs |-> << <<<<"c", "l", "a", "s", "s">>, JsString(<<"c", "o", "n", "t", "e", "x", "t", "-", "h", "e", "a", "d", "e", "r">>)>> >>,
   slot |-> "content"]

leftSidebarRegion ==
  [name |-> "LeftSidebar", slots |-> slots(<<"content">>, <<>>), render |-> "naturalRegion",
   tag |-> <<"a", "s", "i", "d", "e">>, attrs |-> << <<<<"c", "l", "a", "s", "s">>, JsString(<<"l", "e", "f", "t", "-", "s", "i", "d", "e", "b", "a", "r">>)>> >>,
   slot |-> "content"]

breadcrumbRowRegion ==
  [name |-> "BreadcrumbRow", slots |-> slots(<<"crumbs">>, <<>>), render |-> "naturalRegion",
   tag |-> <<"n", "a", "v">>,
   attrs |-> << <<<<"c", "l", "a", "s", "s">>, JsString(<<"b", "r", "e", "a", "d", "c", "r", "u", "m", "b", "-", "r", "o", "w">>)>>,
                <<<<"a", "r", "i", "a", "-", "l", "a", "b", "e", "l">>, JsString(<<"B", "r", "e", "a", "d", "c", "r", "u", "m", "b">>)>> >>,
   slot |-> "crumbs"]

mainContentRegion ==
  [name |-> "MainContent", slots |-> slots(<<"content">>, <<>>), render |-> "mainContentRegion",
   tag |-> <<"m", "a", "i", "n">>, attrs |-> << <<<<"c", "l", "a", "s", "s">>, JsString(<<"m", "a", "i", "n", "-", "c", "o", "n", "t", "e", "n", "t">>)>> >>,
   slot |-> "content"]

rightSidebarRegion ==
  [name |-> "RightSidebar", slots |-> slots(<<"content">>, <<>>), render |-> "naturalRegion",
   tag |-> <<"a", "s", "i", "d", "e">>, attrs |-> << <<<<"c", "l", "a", "s", "s">>, JsString(<<"r", "i", "g", "h", "t", "-", "s", "i", "d", "e", "b", "a", "r">>)>> >>,
   slot |-> "content"]

\* The render function of a region of the natural design system: its element
\* around what its one slot builds, for MainContent inside a wrapper.
naturalRegionRender(region, ctx, s, log) ==
  LET r == InTurn(NoDs, s, <<SlotStep(region.slot)>>, Begin(log))
      content == r.val[1][1]
  IN IF ~r.ok THEN r
     ELSE Rendered(
       h(region.tag,
         << JsAttrs(region.attrs),
            IF region.render = "mainContentRegion"
            THEN h(<<"d", "i", "v">>, << JsAttrs(<< <<<<"c", "l", "a", "s", "s">>, JsString(<<"c", "o", "n", "t", "e", "n", "t", "-", "w", "r", "a", "p", "p", "e", "r">>)>> >>),
                              content >>)
            ELSE content >>),
       r.log)

(***************************************************************************)
(* Regions and layouts invoked by name                                     *)
(***************************************************************************)

Registered(defs, name) == \E i \in 1..Len(defs) : defs[i].name = name

Lookup(defs, name) == defs[CHOOSE i \in 1..Len(defs) : defs[i].name = name]

\* The render function of a registered region.
RenderRegion(region, ctx, s, log) ==
  CASE region.render = "starterMainRegion" -> starterMainRegionRender(ctx, s, log)
    [] region.render = "corpusHeaderRegion" -> corpusHeaderRegionRender(ctx, s, log)
    [] region.render = "corpusMainRegion" -> corpusMainRegionRender(ctx, s, log)
    [] region.render = "corpusFooterRegion" -> corpusFooterRegionRender(ctx, s, log)
    [] region.render \in {"naturalRegion", "mainContentRegion"} ->
         naturalRegionRender(region, ctx, s, log)

\* api.region(name, subslots) inside a layout render of design system d:
\* the region is looked up, its slots are validated, its render is invoked.
apiRegion(d, name, subslots, log) ==
  IF ~Registered(d.regions, name) THEN Failed(UnknownRegion(name), log)
  ELSE LET region == Lookup(d.regions, name)
           s == ValidateSlots(region.slots, name, subslots, UnknownSlotMode(d))
       IN IF ~s.ok THEN Failed(s.err, log)
          ELSE RenderRegion(region, [kind |-> KindRegion], s.val[1], log)

\* The slots starterLayout.render hands on to Main.
StarterMainSubslots(s) ==
  JsObject(<< <<"title", Prop(s, "title")>>, <<"content", Prop(s, "content")>> >>
           \o (IF IsSet(s, "lead") THEN << <<"lead", Prop(s, "lead")>> >> ELSE <<>>))

\* The render function of Starter, were it to call the title builder itself
\* besides handing it on to Main.
starterLayoutRenderCallingTitle(d, ctx, s, log) ==
  LET r == InTurn(d, s,
                  << SlotStep("title"),
                     RegionStep("Main", StarterMainSubslots(s)) >>,
                  Begin(log))
      title == r.val[1][1]
      main == r.val[1][2]
  IN IF ~r.ok THEN r
     ELSE Rendered(
       h(<<"s", "e", "c", "t", "i", "o", "n">>, <<ClassIdAttrs(ctx, <<"s", "h", "e", "l", "l">>, <<"s", "h", "e", "l", "l">>, KindLayout), main>>),
       r.log)

\* The render function of Starter, were it to leave Main out when the design
\* system has no region of that name.
starterLayoutRenderWithFallback(d, ctx, s, log) ==
  LET r == InTurn(d, s,
                  IF Registered(d.regions, "Main")
                  THEN <<RegionStep("Main", StarterMainSubslots(s))>> ELSE <<>>,
                  Begin(log))
      main == IF r.val[1] = <<>> THEN JsNull ELSE r.val[1][1]
  IN IF ~r.ok THEN r
     ELSE Rendered(
       h(<<"s", "e", "c", "t", "i", "o", "n">>, <<ClassIdAttrs(ctx, <<"s", "h", "e", "l", "l">>, <<"s", "h", "e", "l", "l">>, KindLayout), main>>),
       r.log)

\* starterLayout.render
starterLayoutRender(d, ctx, s, log) ==
  LET r == InTurn(d, s,
                  << RegionStep("Main", StarterMainSubslots(s)) >>,
                  Begin(log))
      main == r.val[1][1]
  IN IF ~r.ok THEN r
     ELSE Rendered(
       h(<<"s", "e", "c", "t", "i", "o", "n">>, <<ClassIdAttrs(ctx, <<"s", "h", "e", "l", "l">>, <<"s", "h", "e", "l", "l">>, KindLayout), main>>),
       r.log)

\* The slots a corpus layout hands on to Header, to Main and to Footer.
HeaderSubslots(s) ==
  optionalSlots(<< <<"title", Prop(s, "title")>>, <<"globalNav", Prop(s, "globalNav")>>,
                   <<"searchBox", Prop(s, "searchBox")>> >>)

MainSubslots(s) ==
  optionalSlots(<< <<"navSubject", Prop(s, "navSubject")>>, <<"navTree", Prop(s, "navTree")>>,
                   <<"content", Prop(s, "content")>>, <<"toc", Prop(s, "toc")>>,
                   <<"pageMeta", Prop(s, "pageMeta")>> >>)

FooterSubslots(s) == optionalSlots(<< <<"content", Prop(s, "footer")>> >>)

\* docsShellLayout.render
docsShellLayoutRender(d, ctx, s, log) ==
  LET r == InTurn(d, s,
                  << RegionStep("Header", HeaderSubslots(s)),
                     RegionStep("Main", MainSubslots(s)),
                     RegionStep("Footer", FooterSubslots(s)) >>,
                  Begin(log))
      header == r.val[1][1]
      main == r.val[1][2]
      footer == r.val[1][3]
  IN IF ~r.ok THEN r
     ELSE Rendered(
       h(<<"s", "e", "c", "t", "i", "o", "n">>,
         << ClassIdAttrs(ctx, <<"d", "o", "c", "s", "-", "s", "h", "e", "l", "l">>, <<"s", "h", "e", "l", "l">>, KindLayout),
            header, main, footer >>),
       r.log)

\* docLandingLayout.render
docLandingLayoutRender(d, ctx, s, log) ==
  LET r == InTurn(d, s,
                  << RegionStep("Header", HeaderSubslots(s)),
                     SlotStep("hero"),
                     OptionalSlotStep("featured"),
                     SlotStep("sections"),
                     RegionStep("Footer", FooterSubslots(s)) >>,
                  Begin(log))
      header == r.val[1][1]
      hero == r.val[1][2]
      featured == r.val[1][3]
      sections == r.val[1][4]
      footer == r.val[1][5]
  IN IF ~r.ok THEN r
     ELSE Rendered(
       h(<<"s", "e", "c", "t", "i", "o", "n">>,
         << ClassIdAttrs(ctx, <<"l", "a", "n", "d", "i", "n", "g">>, <<"l", "a", "n", "d", "i", "n", "g">>, KindLayout),
            header,
            h(<<"m", "a", "i", "n">>,
              << ClassAttrs(ctx, <<"l", "a", "n", "d", "i", "n", "g", "_", "_", "m", "a", "i", "n">>),
                 h(<<"s", "e", "c", "t", "i", "o", "n">>, <<ClassAttrs(ctx, <<"l", "a", "n", "d", "i", "n", "g", "_", "_", "h", "e", "r", "o">>), hero>>),
                 OrNull(IsSet(s, "featured"),
                        h(<<"s", "e", "c", "t", "i", "o", "n">>, <<ClassAttrs(ctx, <<"l", "a", "n", "d", "i", "n", "g", "_", "_", "f", "e", "a", "t", "u", "r", "e", "d">>), featured>>)),
                 h(<<"s", "e", "c", "t", "i", "o", "n">>, <<ClassAttrs(ctx, <<"l", "a", "n", "d", "i", "n", "g", "_", "_", "s", "e", "c", "t", "i", "o", "n", "s">>), sections>>) >>),
            footer >>),
       r.log)

\* The slots docPageLayout.render hands on to DocsShell.
DocsShellSubslots(s) ==
  optionalSlots(<< <<"title", Prop(s, "title")>>, <<"navSubject", Prop(s, "navSubject")>>,
                   <<"navTree", Prop(s, "navTree")>>, <<"content", Prop(s, "content")>>,
                   <<"toc", Prop(s, "toc")>>, <<"pageMeta", Prop(s, "pageMeta")>>,
                   <<"globalNav", Prop(s, "globalNav")>>, <<"searchBox", Prop(s, "searchBox")>>,
                   <<"footer", Prop(s, "footer")>> >>)

\* naturalLayout.render
naturalLayoutRender(d, ctx, s, log) ==
  LET r == InTurn(d, s,
                  << RegionStep("ContextHeader", JsObject(<< <<"content", Prop(s, "contextHeader")>> >>)),
                     RegionStep("LeftSidebar", JsObject(<< <<"content", Prop(s, "sidebar")>> >>)),
                     RegionStep("BreadcrumbRow", JsObject(<< <<"crumbs", Prop(s, "breadcrumbs")>> >>)),
                     RegionStep("MainContent", JsObject(<< <<"content", Prop(s, "content")>> >>)),
                     RegionStep("RightSidebar", JsObject(<< <<"content", Prop(s, "toc")>> >>)) >>,
                  Begin(log))
      contextHeader == r.val[1][1]
      sidebar == r.val[1][2]
      breadcrumbs == r.val[1][3]
      content == r.val[1][4]
      toc == r.val[1][5]
  IN IF ~r.ok THEN r
     ELSE Rendered(
       h(<<"d", "i", "v">>,
         << JsAttrs(<< <<<<"c", "l", "a", "s", "s">>, JsString(<<"p", "a", "g", "e", "-", "l", "a", "y", "o", "u", "t">>)>> >>),
            contextHeader, sidebar, breadcrumbs, content,
            toc >>),
       r.log)

naturalLayout ==
  [name |-> "NaturalDoc",
   slots |-> slots(<<"contextHeader", "sidebar", "breadcrumbs", "content", "toc">>, <<>>),
   headSlots |-> slots(<<>>, <<"title", "meta", "styles", "scripts">>),
   render |-> "naturalLayout"]

\* AppShellLayout of the canonical design system.
AppShellLayout ==
  [name |-> "AppShell",
   slots |-> slots(<<"breadcrumbs", "content">>,
                   <<"headerLeft", "headerCenter", "headerRight", "headerRow2",
                     "breadcrumbActions", "sidebar", "rail", "footerLeft", "footerCenter",
                     "footerRight">>),
   headSlots |-> slots(<<>>, <<"title", "head">>),
   render |-> "AppShellLayout"]

\* AppShellLayout.render is reached by no page drawn here: what its regions
\* build depends on the wrapper elements of the engine.
NotModelled(name) == [cond |-> "NotModelled", name |-> name, owner |-> ""]

RECURSIVE apiLayout(_, _, _, _)

\* docPageLayout.render
docPageLayoutRender(d, ctx, s, log) == apiLayout(d, "DocsShell", DocsShellSubslots(s), log)

\* The render function of a registered layout.
RenderLayout(layout, d, ctx, s, log) ==
  CASE layout.render = "starterLayout" -> starterLayoutRender(d, ctx, s, log)
    [] layout.render = "docsShellLayout" -> docsShellLayoutRender(d, ctx, s, log)
    [] layout.render = "docPageLayout" -> docPageLayoutRender(d, ctx, s, log)
    [] layout.render = "docLandingLayout" -> docLandingLayoutRender(d, ctx, s, log)
    [] layout.render = "naturalLayout" -> naturalLayoutRender(d, ctx, s, log)
    [] OTHER -> Failed(NotModelled(layout.name), log)

\* A layout invoked by name with a slot map, by page() or by api.layout: the
\* layout is looked up, its slots are validated, its render is invoked.
apiLayout(d, name, supplied, log) ==
  IF ~Registered(d.layouts, name) THEN Failed(UnknownLayout(name), log)
  ELSE LET layout == Lookup(d.layouts, name)
           s == ValidateSlots(layout.slots, name, supplied, UnknownSlotMode(d))
       IN IF ~s.ok THEN Failed(s.err, log)
          ELSE RenderLayout(layout, d, [kind |-> KindLayout], s.val[1], log)

(***************************************************************************)
(* page(): the head, the document                                          *)
(***************************************************************************)

\* The keys of a HeadSlotInput.
HeadKeys == <<"title", "meta", "styles", "scripts">>

\* headSlots(input) of the patterns module: a slot builder for every key the
\* input supplies; the one of title builds the title element, the others
\* splice the nodes they were given.
HeadSlotBuilder(k, v) ==
  SlotBuilder([title |-> "head.title", meta |-> "head.meta", styles |-> "head.styles",
               scripts |-> "head.scripts"][k],
              IF k = "title" THEN h(<<"t", "i", "t", "l", "e">>, <<v>>) ELSE v)

headSlots(given) ==
  JsObject([i \in 1..Len(optionalSlots(given.val).val) |->
             LET p == optionalSlots(given.val).val[i]
             IN <<p[1], HeadSlotBuilder(p[1], p[2])>>])

\* The tag page() emits for one UA dependency.
uaDependencyTag(dep) ==
  IF dep.mimeType = "text/css"
  THEN h(<<"l", "i", "n", "k">>, << JsAttrs(<< <<<<"r", "e", "l">>, JsString(<<"s", "t", "y", "l", "e", "s", "h", "e", "e", "t">>)>>,
                                <<<<"h", "r", "e", "f">>, JsString(dep.mountPoint)>> >>) >>)
  ELSE h(<<"s", "c", "r", "i", "p", "t">>,
         << JsAttrs(<< <<<<"s", "r", "c">>, JsString(dep.mountPoint)>> >>
                    \o (IF dep.as = "module"
                        THEN << <<<<"t", "y", "p", "e">>, JsString(<<"m", "o", "d", "u", "l", "e">>)>> >> ELSE <<>>)) >>)

\* The head slots a layout declares, invoked in the order of their declaration.
RECURSIVE HeadSlotsLoop(_, _, _, _)
HeadSlotsLoop(keys, s, out, log) ==
  IF keys = <<>> THEN Rendered(out, log)
  ELSE LET r == InvokeIfSet(s, Head(keys), Start(log))
       IN IF ~r.ok THEN r
          ELSE HeadSlotsLoop(Tail(keys), s,
                             IF IsNullish(r.val[1]) THEN out ELSE Append(out, r.val[1]), r.log)

\* Step 5 of page(): the tags of the UA dependencies in registration order,
\* then what the head slots of the caller contribute.
BuildHead(d, layout, supplied, log) ==
  LET s == ValidateSlots(layout.headSlots, layout.name, supplied, UnknownSlotMode(d))
  IN IF ~s.ok THEN Failed(s.err, log)
     ELSE HeadSlotsLoop(layout.headSlots.required \o layout.headSlots.optional, s.val[1],
                        [i \in 1..Len(d.uaDependencies) |-> uaDependencyTag(d.uaDependencies[i])],
                        log)

\* Step 6 of page(): doctype, then html holding head and body.
Document(headChildren, body) ==
  LET html == Build(h(<<"h", "t", "m", "l">>, <<h(<<"h", "e", "a", "d">>, headChildren), h(<<"b", "o", "d", "y">>, <<body>>)>>)).val
  IN [rawHtml |-> doctype.rawHtml \o html.rawHtml,
      ast |-> <<[kind |-> "fragment", children |-> <<doctype.ast[1], html.ast[1]>>]>>]

\* ds.page(layoutName, renderCtx, { slots, headSlots }) of the design system
\* d, for the empty render context the design systems here are typed with.
DocumentOf(body, head) ==
  IF ~head.ok THEN head ELSE Rendered(Document(head.val[1], body.val[1]), head.log)

HeadAfterBody(d, layoutName, options, body) ==
  IF ~body.ok THEN body
  ELSE DocumentOf(body, BuildHead(d, Lookup(d.layouts, layoutName), options.headSlots, body.log))

page(d, layoutName, options) ==
  HeadAfterBody(d, layoutName, options, apiLayout(d, layoutName, options.slots, <<>>))

\* The policies createCanonicalFluentDs declares.
canonicalPoliciesIgnoring ==
  [wrappers |-> [enabled |-> TRUE], dev |-> <<[unknownSlotMode |-> "ignore"]>>]

canonicalPolicies ==
  [wrappers |-> [enabled |-> TRUE], dev |-> <<[unknownSlotMode |-> "throw"]>>]

\* createCanonicalFluentDs(): its layout and its policies; its regions and
\* its UA dependencies play no part in a page that fails validation.
createCanonicalFluentDs ==
  [name |-> "fluent-ds",
   policies |-> canonicalPolicies,
   uaDependencies |-> <<>>,
   regions |-> <<>>,
   layouts |-> <<AppShellLayout>>,
   defaultHead |-> JsObject(<<>>)]

\* The reset style the natural design system puts in every head.
NaturalResetCss ==
  <<"\n", " ", " ", " ", " ", " ", " ", " ", " ", "h", "t", "m", "l", " ", "{", " ", "s", "c", "r", "o", "l", "l", "-", "b", "e", "h", "a", "v", "i", "o", "r", ":", " ", "s", "m", "o", "o", "t", "h", ";", " ", "}", "\n", " ", " ", " ", " ", " ", " ", " ", " ", "*", " ", "{", " ", "b", "o", "x", "-", "s", "i", "z", "i", "n", "g", ":", " ", "b", "o", "r", "d", "e", "r", "-", "b", "o", "x", ";", " ", "m", "a", "r", "g", "i", "n", ":", " ", "0", ";", " ", "p", "a", "d", "d", "i", "n", "g", ":", " ", "0", ";", " ", "}", "\n", " ", " ", " ", " ", " ", " ">>

\* const defaultHead = headSlots({ styles: [h.style(...)] })
naturalDefaultHead ==
  headSlots(JsObject(<< <<"styles", JsArray(<<h(<<"s", "t", "y", "l", "e">>, <<JsString(NaturalResetCss)>>)>>)>> >>))

\* The registry naturalDesignSystem() builds, with the defaultHead its page closes over.
naturalDesignSystem ==
  [name |-> "natural-ds",
   policies |-> WrappersOff,
   uaDependencies |-> <<>>,
   regions |-> <<contextHeaderRegion, leftSidebarRegion, breadcrumbRowRegion, mainContentRegion,
                 rightSidebarRegion>>,
   layouts |-> <<naturalLayout>>,
   defaultHead |-> naturalDefaultHead]

\* for (const [key, value] of Object.entries(overrides)) if (value) merged[key] = value
RECURSIVE MergeOverrides(_, _)
MergeOverrides(merged, entries) ==
  IF entries = <<>> THEN merged
  ELSE MergeOverrides(
         IF IsNullish(Head(entries)[2]) \/ IsFalse(Head(entries)[2]) THEN merged
         ELSE Put(merged, Head(entries)[1], Head(entries)[2]),
         Tail(entries))

\* mergeHead, were it to return the overrides alone.
mergeHeadOverridesOnly(defaultHead, given) ==
  [merged |-> IF IsNullish(given) THEN JsObject(<<>>) ELSE headSlots(given),
   defaultHead |-> defaultHead]

\* mergeHead, were merged the defaultHead object itself and not a copy of it.
mergeHeadInPlace(defaultHead, given) ==
  LET overrides == IF IsNullish(given) THEN JsObject(<<>>) ELSE headSlots(given)
      merged == MergeOverrides(defaultHead, overrides.val)
  IN [merged |-> merged, defaultHead |-> merged]

\* mergeHead(input?): what it returns, and defaultHead as it leaves it.
mergeHead(defaultHead, given) ==
  LET overrides == IF IsNullish(given) THEN JsObject(<<>>) ELSE headSlots(given)
      merged == MergeOverrides(defaultHead, overrides.val)
  IN [merged |-> merged, defaultHead |-> defaultHead]

\* page of the object naturalDesignSystem() returns: the head slots it
\* passes on, the result of ds.page, and the design system afterwards.
naturalPage(d, layoutName, options) ==
  LET m == mergeHead(d.defaultHead, options.headSlots)
  IN [passed |-> m.merged,
      result |-> page(d, layoutName, [options EXCEPT !.headSlots = m.merged]),
      ds |-> [d EXCEPT !.defaultHead = m.defaultHead]]

\* page of a design system instance, whichever factory built it.
PageOf(d, layoutName, options) ==
  IF d.name = "natural-ds" THEN naturalPage(d, layoutName, options)
  ELSE [passed |-> options.headSlots, result |-> page(d, layoutName, options), ds |-> d]

(***************************************************************************)
(* One page of a drawn design system on drawn slots                        *)
(***************************************************************************)

\* A slot the caller leaves out of the slot map.
Absent == [ty |-> "absent"]

\* The slot map holding, in the given key order, the slots that are not left out.
SlotMap(order, value) ==
  JsObject(SelectSeq([i \in 1..Len(order) |-> <<order[i], value[order[i]]>>],
                     LAMBDA p : p[2] # Absent))

Reverse(xs) == [i \in 1..Len(xs) |-> xs[Len(xs) + 1 - i]]

\* The builders of the starter test, and one for a slot Starter does not declare.
StarterBuilders ==
  [title |-> SlotBuilder("title", JsRawHtml(trustedRaw(<<"S", "t", "a", "r", "t", "e", "r", " ", "D", "S">>))),
   lead |-> SlotBuilder("lead", h(<<"p">>, <<JsString(<<"P", "i", "c", "o", "C", "S", "S", "-", "p", "o", "w", "e", "r", "e", "d", " ", "s", "t", "a", "r", "t", "e", "r", ".">>)>>)),
   content |-> SlotBuilder("content",
                 h(<<"p">>, <<JsString(<<"H", "e", "l", "l", "o", " ", "f", "r", "o", "m", " ", "t", "h", "e", " ", "s", "t", "a", "r", "t", "e", "r", " ", "d", "e", "s", "i", "g", "n", " ", "s", "y", "s", "t", "e", "m", ".">>)>>)),
   sidebar |-> SlotBuilder("sidebar", h(<<"p">>, <<JsString(<<"A", "s", "i", "d", "e">>)>>))]

StarterKeys == <<"title", "lead", "content", "sidebar">>

StarterSlotMaps ==
  { SlotMap(order, value) :
      order \in {StarterKeys, Reverse(StarterKeys)},
      value \in [title : {Absent, StarterBuilders.title, JsString(<<"S", "t", "a", "r", "t", "e", "r", " ", "D", "S">>)},
                 lead : {Absent, StarterBuilders.lead, JsUndefined},
                 content : {Absent, StarterBuilders.content, JsNull},
                 sidebar : {Absent, StarterBuilders.sidebar}] }

NoHeadSlots == JsObject(<<>>)

TitleHeadSlots(text) == headSlots(JsObject(<< <<"title", JsString(text)>> >>))

\* The design systems drawn: those the factories build, the starter one under
\* the policy of ignoring unknown slots, and one built from starterLayout
\* without the region it asks for.
StarterIgnoringUnknownSlots ==
  [starterDesignSystem EXCEPT !.policies = [wrappers |-> [enabled |-> FALSE],
                                            dev |-> <<[unknownSlotMode |-> "ignore"]>>]]

StarterWithoutMain == [starterDesignSystem EXCEPT !.regions = <<>>]

DesignSystems ==
  { starterDesignSystem, StarterIgnoringUnknownSlots, StarterWithoutMain,
    corpusDesignSystem, createCanonicalFluentDs, naturalDesignSystem }

CorpusText ==
  [title |-> <<"C", "o", "r", "p", "u", "s", " ", "D", "S">>, navSubject |-> <<"S", "u", "b", "j", "e", "c", "t">>, navTree |-> <<"C", "h", "a", "p", "t", "e", "r", "s">>,
   content |-> <<"G", "e", "t", "t", "i", "n", "g", " ", "S", "t", "a", "r", "t", "e", "d">>, toc |-> <<"W", "h", "y", " ", "C", "o", "r", "p", "u", "s">>, pageMeta |-> <<"U", "p", "d", "a", "t", "e", "d">>,
   globalNav |-> <<"D", "o", "c", "s">>, searchBox |-> <<"S", "e", "a", "r", "c", "h">>, footer |-> <<"2", "0", "2", "6">>,
   hero |-> <<"H", "e", "r", "o">>, sections |-> <<"S", "e", "c", "t", "i", "o", "n", "s">>, featured |-> <<"F", "e", "a", "t", "u", "r", "e", "d">>,
   sidebar |-> <<"A", "s", "i", "d", "e">>,
   breadcrumbs |-> <<"H", "o", "m", "e">>, contextHeader |-> <<"N", "a", "t", "u", "r", "a", "l">>]

CorpusBuilder(k) == SlotBuilder(k, h(<<"s", "p", "a", "n">>, <<JsString(CorpusText[k])>>))

DocKeys ==
  <<"title", "navSubject", "navTree", "content", "toc", "pageMeta", "globalNav", "searchBox",
    "footer", "sidebar">>

\* Slot maps for DocPage and DocsShell: the required slots, navTree at times
\* left out, with some of the optional slots and at times an undeclared one.
DocSlotMaps ==
  { SlotMap(order, [k \in DOMAIN CorpusText |-> IF k \in supplied THEN CorpusBuilder(k) ELSE Absent]) :
      order \in {DocKeys, Reverse(DocKeys)},
      supplied \in { {"title", "navSubject", "content"} \cup navTree \cup optional \cup extra :
                       navTree \in {{}, {"navTree"}},
                       optional \in { {}, {"toc"}, {"globalNav", "footer"},
                                      {"toc", "pageMeta", "globalNav", "searchBox", "footer"} },
                       extra \in {{}, {"sidebar"}} } }

LandingKeys == <<"title", "hero", "featured", "sections", "footer">>

LandingSlotMaps ==
  { SlotMap(LandingKeys, [k \in DOMAIN CorpusText |-> IF k \in supplied THEN CorpusBuilder(k) ELSE Absent]) :
      supplied \in { {"title", "hero", "sections"}, {"title", "hero", "sections", "featured"},
                     {"title", "hero", "sections", "footer"} } }

\* Slot maps for AppShell, each with a slot it does not declare.
AppShellSlotMaps ==
  { SlotMap(order, [k \in DOMAIN CorpusText |-> CorpusBuilder(k)]) :
      order \in { <<"breadcrumbs", "content", "toc">>, <<"toc", "content", "breadcrumbs">>,
                  <<"breadcrumbs", "content", "sidebar", "navTree">> } }

NaturalKeys == <<"contextHeader", "sidebar", "breadcrumbs", "content", "toc">>

NaturalSlotMaps ==
  { SlotMap(order, [k \in DOMAIN CorpusText |-> IF k \in supplied THEN CorpusBuilder(k) ELSE Absent]) :
      order \in {NaturalKeys, Reverse(NaturalKeys)},
      supplied \in { {"contextHeader", "sidebar", "breadcrumbs", "content", "toc"},
                     {"contextHeader", "sidebar", "breadcrumbs", "content"} } }

\* A style of the caller's own.
CallerStyle == JsArray(<<h(<<"s", "t", "y", "l", "e">>, <<JsString(<<"b", "o", "d", "y", " ", "{", " ", "m", "a", "r", "g", "i", "n", ":", " ", "0", ";", " ", "}">>)>>)>>)

\* The HeadSlotInput values a caller of the natural page passes, or undefined.
HeadSlotInputs ==
  { JsUndefined,
    JsObject(<<>>),
    JsObject(<< <<"title", JsString(<<"N", "a", "t", "u", "r", "a", "l", " ", "D", "S", " ", "E", "x", "a", "m", "p", "l", "e">>)>> >>),
    JsObject(<< <<"styles", CallerStyle>> >>),
    JsObject(<< <<"title", JsString(<<"N", "a", "t", "u", "r", "a", "l", " ", "D", "S", " ", "E", "x", "a", "m", "p", "l", "e">>)>>, <<"styles", CallerStyle>> >>),
    JsObject(<< <<"title", JsString(<<"N", "a", "t", "u", "r", "a", "l", " ", "D", "S", " ", "E", "x", "a", "m", "p", "l", "e">>)>>,
                <<"meta", JsArray(<<h(<<"m", "e", "t", "a">>, <<JsAttrs(<< <<<<"c", "h", "a", "r", "s", "e", "t">>, JsString(<<"u", "t", "f", "-", "8">>)>> >>)>>)>>)>> >>),
    JsObject(<< <<"title", JsUndefined>>, <<"styles", CallerStyle>> >>) }

InitPage ==
  /\ ds \in DesignSystems
  /\ call = NoCall
  /\ input = NoInput
  /\ rawPolicy = PermissivePolicy
  /\ held = <<>>
  /\ seen = NothingSeen
  /\ bundler = NoBundler
  /\ BeyondServerIdle

\* ds.page(layoutName, {}, options) on the instance.
Page(layoutName, options) ==
  \E r \in {PageOf(ds, layoutName, options)} :
     /\ call' = [op |-> "page", name |-> layoutName, options |-> options,
                 passed |-> r.passed, result |-> r.result]
     /\ ds' = r.ds
     /\ UNCHANGED <<rawPolicy, held, seen, input, bundler, beyondServer>>

StarterPage ==
  /\ call = NoCall
  /\ ds.name = "starter-ds"
  /\ \E layoutName \in {"Starter", "Landing"}, slotMap \in StarterSlotMaps,
        head \in {NoHeadSlots, TitleHeadSlots(<<"S", "t", "a", "r", "t", "e", "r">>)} :
       Page(layoutName, [slots |-> slotMap, headSlots |-> head])

CorpusPage ==
  /\ call = NoCall
  /\ ds.name = "corpus-ds"
  /\ \/ \E layoutName \in {"DocPage", "DocsShell", "DocHome"}, slotMap \in DocSlotMaps,
           head \in {NoHeadSlots, TitleHeadSlots(<<"C", "o", "r", "p", "u", "s", " ", "D", "S">>)} :
          Page(layoutName, [slots |-> slotMap, headSlots |-> head])
     \/ \E slotMap \in LandingSlotMaps :
          Page("DocLanding", [slots |-> slotMap, headSlots |-> TitleHeadSlots(<<"C", "o", "r", "p", "u", "s", " ", "D", "S">>)])

CanonicalPage ==
  /\ call = NoCall
  /\ ds.name = "fluent-ds"
  /\ \E slotMap \in AppShellSlotMaps :
       Page("AppShell", [slots |-> slotMap, headSlots |-> NoHeadSlots])

NaturalPage ==
  /\ call = NoCall
  /\ ds.name = "natural-ds"
  /\ \E layoutName \in {"NaturalDoc", "Natural"}, slotMap \in NaturalSlotMaps,
        head \in HeadSlotInputs :
       Page(layoutName, [slots |-> slotMap, headSlots |-> head])

\* What a render step returned, its tag function calls made.
Built(r) == IF r.ok THEN Rendered(Build(r.val[1]), r.log) ELSE r

\* api.region(name, subslots) as the render function of a layout of the
\* starter design system calls it.
StarterRegion ==
  /\ call = NoCall
  /\ ds.name = "starter-ds"
  /\ \E name \in {"Main", "Aside"}, slotMap \in StarterSlotMaps :
       call' = [op |-> "region", name |-> name,
                options |-> [slots |-> slotMap, headSlots |-> NoHeadSlots],
                passed |-> NoHeadSlots,
                result |-> Built(apiRegion(ds, name, slotMap, <<>>))]
  /\ UNCHANGED <<rawPolicy, held, seen, input, ds, bundler, beyondServer>>

NextPage == StarterPage \/ StarterRegion \/ CorpusPage \/ CanonicalPage \/ NaturalPage

SpecPage == InitPage /\ [][NextPage]_vars

(***************************************************************************)
(* What the declarations say, as the properties refer to them              *)
(***************************************************************************)

\* The slots each region and layout called here declares required.
DeclaredRequired ==
  [Starter |-> {"title", "content"},
   Main |-> {"title", "content"},
   DocsShell |-> {"title", "navSubject", "navTree", "content"},
   DocPage |-> {"title", "navSubject", "navTree", "content"},
   DocLanding |-> {"title", "hero", "sections"},
   AppShell |-> {"breadcrumbs", "content"},
   NaturalDoc |-> {"contextHeader", "sidebar", "breadcrumbs", "content", "toc"}]

\* The slots each of them declares optional.
DeclaredOptional ==
  [Starter |-> {"lead"},
   Main |-> {"lead"},
   DocsShell |-> {"toc", "pageMeta", "globalNav", "searchBox", "footer"},
   DocPage |-> {"toc", "pageMeta", "globalNav", "searchBox", "footer"},
   DocLanding |-> {"globalNav", "searchBox", "featured", "footer"},
   AppShell |-> {"headerLeft", "headerCenter", "headerRight", "headerRow2",
                 "breadcrumbActions", "sidebar", "rail", "footerLeft", "footerCenter",
                 "footerRight"},
   NaturalDoc |-> {}]

\* The call invoked a region or layout the design system has registered.
InvokedRegistered ==
  /\ call.op \in {"page", "region"}
  /\ call.name \in DOMAIN DeclaredRequired
  /\ Registered(IF call.op = "page" THEN ds.layouts ELSE ds.regions, call.name)

SuppliedNames == {call.options.slots.val[i][1] : i \in 1..Len(call.options.slots.val)}

\* The required slots the supplied map lacks or holds no function for.
MissingSlots == {k \in DeclaredRequired[call.name] : ~IsCallable(call.options.slots, k)}

\* The supplied names the invoked region or layout does not declare.
UndeclaredSlots ==
  SuppliedNames \ (DeclaredRequired[call.name] \cup DeclaredOptional[call.name])

\* C11: a region or layout invoked with a slot map that lacks a slot it
\* requires, or holds something that is no function for it, fails with
\* MissingRequiredSlot, which names such a slot and the region or layout
\* invoked, and no HTML is produced.  (Maps that also hold undeclared names
\* are left to the law of unknown slots.)
MissingRequiredSlotLaw ==
  (InvokedRegistered /\ MissingSlots # {} /\ UndeclaredSlots = {}) =>
    /\ ~call.result.ok
    /\ call.result.val = <<>>
    /\ call.result.err.cond = "MissingRequiredSlot"
    /\ call.result.err.name \in MissingSlots
    /\ call.result.err.owner = call.name

MissingRequiredSlotLawWitness ==
  /\ InvokedRegistered
  /\ call.op = "page"
  /\ call.name = "Starter"
  /\ SuppliedNames = {"title", "lead"}
  /\ MissingSlots = {"content"}
  /\ call.result.err = MissingRequiredSlot("content", "Starter")

\* The supplied slot map without the names the invoked region or layout does not declare.
DeclaredSlotsOnly ==
  JsObject(SelectSeq(call.options.slots.val, LAMBDA p : p[1] \notin UndeclaredSlots))

\* C12: a supplied slot name that is neither required nor optional raises
\* UnknownSlot, naming it and the region or layout invoked, in every design
\* system that runs under the policy "throw" (declared by the canonical one,
\* the default of the others), and under the policy "ignore" the call
\* succeeds with what it returns for the slot map without that name.
UnknownSlotLaw ==
  (InvokedRegistered /\ MissingSlots = {} /\ UndeclaredSlots # {}) =>
    IF ds = StarterIgnoringUnknownSlots
    THEN /\ call.result.ok
         /\ call.result =
              IF call.op = "page"
              THEN page(ds, call.name, [call.options EXCEPT !.slots = DeclaredSlotsOnly])
              ELSE Built(apiRegion(ds, call.name, DeclaredSlotsOnly, <<>>))
    ELSE /\ ~call.result.ok
         /\ call.result.val = <<>>
         /\ call.result.err.cond = "UnknownSlot"
         /\ call.result.err.name \in UndeclaredSlots
         /\ call.result.err.owner = call.name

UnknownSlotLawWitness ==
  /\ InvokedRegistered
  /\ ds = createCanonicalFluentDs
  /\ call.name = "AppShell"
  /\ SuppliedNames = {"breadcrumbs", "content", "toc"}
  /\ call.result.err = UnknownSlot("toc", "AppShell")

\* C13: a name the design system has not registered is never rendered around:
\* page() of such a layout name fails with UnknownLayout, api.region of such
\* a region name fails with UnknownRegion, also when the render function of
\* Starter calls it in a design system without Main, whatever the policy on
\* unknown slots is, and the failed call returns no HTML.
UnknownNameLaw ==
  /\ (call.op = "page" /\ ~Registered(ds.layouts, call.name)) =>
       /\ call.result.err = UnknownLayout(call.name)
       /\ ~call.result.ok /\ call.result.val = <<>>
  /\ (call.op = "region" /\ ~Registered(ds.regions, call.name)) =>
       /\ call.result.err = UnknownRegion(call.name)
       /\ ~call.result.ok /\ call.result.val = <<>>
  /\ (/\ call.op = "page" /\ call.name = "Starter" /\ ~Registered(ds.regions, "Main")
      /\ MissingSlots = {} /\ UndeclaredSlots = {}) =>
       /\ call.result.err = UnknownRegion("Main")
       /\ ~call.result.ok /\ call.result.val = <<>>

UnknownNameLawWitness ==
  /\ call.op = "page"
  /\ call.name = "Starter"
  /\ ds = StarterWithoutMain
  /\ SuppliedNames = {"title", "lead", "content"}
  /\ MissingSlots = {}
  /\ call.result.err = UnknownRegion("Main")
  /\ call.result.val = <<>>

\* How often the builder id was invoked.
Count(log, id) == Cardinality({i \in 1..Len(log) : log[i] = id})

\* The builders among the entries of a slot map.
BuildersOf(o) == {o.val[i] : i \in {j \in 1..Len(o.val) : o.val[j][2].ty = "function"}}

\* C14: during one page() call that returns a document, each slot builder
\* supplied for a slot the layout declares, and each head slot builder passed
\* on, is invoked exactly once, also when the layout hands it on to a region
\* or to another layout; a builder supplied under a name that is ignored is
\* not invoked, and nothing else is.
InvokedExactlyOnce ==
  (call.op = "page" /\ call.result.ok) =>
    /\ \A p \in BuildersOf(call.options.slots) :
         Count(call.result.log, p[2].id) = IF p[1] \in UndeclaredSlots THEN 0 ELSE 1
    /\ \A p \in BuildersOf(call.passed) : Count(call.result.log, p[2].id) = 1
    /\ Len(call.result.log) =
         Cardinality({p \in BuildersOf(call.options.slots) : p[1] \notin UndeclaredSlots})
         + Cardinality(BuildersOf(call.passed))

InvokedExactlyOnceWitness ==
  /\ call.op = "page"
  /\ call.result.ok
  /\ ds = corpusDesignSystem
  /\ call.name = "DocPage"
  /\ SuppliedNames = {"title", "navSubject", "navTree", "content", "toc", "pageMeta",
                      "globalNav", "searchBox", "footer"}
  /\ Count(call.result.log, "footer") = 1
  /\ Len(call.result.log) = 10

\* The order in which the render functions of a layout and of the regions it
\* invokes call the slot builders, by the name each is supplied under.
RenderOrder ==
  [Starter |-> <<"title", "lead", "content">>,
   DocsShell |-> <<"title", "globalNav", "searchBox", "navSubject", "navTree", "content",
                   "pageMeta", "toc", "footer">>,
   DocPage |-> <<"title", "globalNav", "searchBox", "navSubject", "navTree", "content",
                 "pageMeta", "toc", "footer">>,
   DocLanding |-> <<"title", "globalNav", "searchBox", "hero", "featured", "sections",
                    "footer">>,
   NaturalDoc |-> <<"contextHeader", "sidebar", "breadcrumbs", "content", "toc">>]

\* The builders of the body in a log: those of the head come after them.
BodyLog(log) ==
  SelectSeq(log, LAMBDA id : id \notin {"head.title", "head.meta", "head.styles", "head.scripts"})

\* C15: the slot builders of a page run in the order in which the render
\* functions call them (for Starter: title, lead, content), whatever the
\* order of the keys in the slot map the caller passed.
BuildersRunInRenderOrder ==
  (call.op = "page" /\ call.result.ok) =>
    BodyLog(call.result.log) =
      SelectSeq(RenderOrder[call.name], LAMBDA k : IsCallable(call.options.slots, k))

BuildersRunInRenderOrderWitness ==
  /\ call.op = "page"
  /\ call.result.ok
  /\ call.name = "Starter"
  /\ ObjectKeys(call.options.slots) = <<"content", "lead", "title">>
  /\ BodyLog(call.result.log) = <<"title", "lead", "content">>

\* Where pat first starts in s, 0 when s does not contain it.
IndexOf(s, pat) ==
  LET starts == {i \in 1..(Len(s) - Len(pat) + 1) : SubSeq(s, i, i + Len(pat) - 1) = pat}
  IN IF starts = {} THEN 0 ELSE CHOOSE i \in starts : \A j \in starts : i <= j

\* s without the first occurrence of pat.
Without(s, pat) ==
  LET i == IndexOf(s, pat)
  IN IF i = 0 THEN s ELSE SubSeq(s, 1, i - 1) \o SubSeq(s, i + Len(pat), Len(s))

\* The lead element of the starter test.
LeadElement == <<"<", "d", "i", "v", " ", "c", "l", "a", "s", "s", "=", "\"", "r", "e", "g", "i", "o", "n", "-", "l", "e", "a", "d", "\"", ">", "<", "p", ">", "P", "i", "c", "o", "C", "S", "S", "-", "p", "o", "w", "e", "r", "e", "d", " ", "s", "t", "a", "r", "t", "e", "r", ".", "<", "/", "p", ">", "<", "/", "d", "i", "v", ">">>

\* The Starter page of the same call with the lead builder of the test supplied.
SamePageWithLead ==
  page(ds, "Starter",
       [call.options EXCEPT !.slots = Put(call.options.slots, "lead", StarterBuilders.lead)])

\* C16: a Starter page rendered without the optional lead slot holds no
\* region-lead element, not even an empty one, and is the page rendered with
\* lead supplied less that element.
AbsentLeadIsOmitted ==
  (call.op = "page" /\ call.name = "Starter" /\ call.result.ok
     /\ ~IsSet(call.options.slots, "lead")) =>
    /\ IndexOf(call.result.val[1].rawHtml, <<"r", "e", "g", "i", "o", "n", "-", "l", "e", "a", "d">>) = 0
    /\ IndexOf(SamePageWithLead.val[1].rawHtml, LeadElement) # 0
    /\ call.result.val[1].rawHtml = Without(SamePageWithLead.val[1].rawHtml, LeadElement)

AbsentLeadIsOmittedWitness ==
  /\ call.op = "page"
  /\ call.name = "Starter"
  /\ call.result.ok
  /\ ds = starterDesignSystem
  /\ SuppliedNames = {"title", "content"}
  /\ IndexOf(call.result.val[1].rawHtml, <<"<", "h", "1", ">", "S", "t", "a", "r", "t", "e", "r", " ", "D", "S", "<", "/", "h", "1", ">", "<", "s", "e", "c", "t", "i", "o", "n", " ", "c", "l", "a", "s", "s", "=", "\"", "r", "e", "g", "i", "o", "n", "-", "c", "o", "n", "t", "e", "n", "t", "\"", ">">>) # 0

\* The tags of the corpus test for the two UA dependencies.
PicoLink ==
  <<"<", "l", "i", "n", "k", " ", "h", "r", "e", "f", "=", "\"", "h", "t", "t", "p", "s", ":", "/", "/", "c", "d", "n", ".", "j", "s", "d", "e", "l", "i", "v", "r", ".", "n", "e", "t", "/", "n", "p", "m", "/", "@", "p", "i", "c", "o", "c", "s", "s", "/", "p", "i", "c", "o", "@", "2", "/", "c", "s", "s", "/", "p", "i", "c", "o", ".", "m", "i", "n", ".", "c", "s", "s", "\"", " ", "r", "e", "l", "=", "\"", "s", "t", "y", "l", "e", "s", "h", "e", "e", "t", "\"", ">">>

CorpusScript ==
  <<"<", "s", "c", "r", "i", "p", "t", " ", "s", "r", "c", "=", "\"", "h", "t", "t", "p", "s", ":", "/", "/", "c", "d", "n", ".", "j", "s", "d", "e", "l", "i", "v", "r", ".", "n", "e", "t", "/", "n", "p", "m", "/", "@", "c", "o", "r", "p", "u", "s", "-", "d", "s", "/", "c", "l", "i", "e", "n", "t", "@", "0", "/", "d", "i", "s", "t", "/", "c", "o", "r", "p", "u", "s", ".", "m", "i", "n", ".", "j", "s", "\"", " ", "t", "y", "p", "e", "=", "\"", "m", "o", "d", "u", "l", "e", "\"", ">", "<", "/", "s", "c", "r", "i", "p", "t", ">">>

\* What the title head slot of the caller contributes.
CallerTitle ==
  IF IsSet(call.passed, "title") THEN Build(Get(call.passed, "title").out).val.rawHtml ELSE <<>>

\* C17: the head of a page holds the UA dependencies of the design system in
\* the order of their registration, the stylesheet as a link rel=stylesheet
\* tag and the module script as a script src tag of type module, and only
\* after them what the caller supplied for the head, such as the title.
UaDependenciesFirst ==
  (call.op = "page" /\ call.result.ok /\ ds.name \in {"starter-ds", "corpus-ds"}) =>
    IndexOf(call.result.val[1].rawHtml,
            <<"<", "h", "e", "a", "d", ">">> \o PicoLink \o (IF ds.name = "corpus-ds" THEN CorpusScript ELSE <<>>)
              \o CallerTitle \o <<"<", "/", "h", "e", "a", "d", ">">>) # 0

UaDependenciesFirstWitness ==
  /\ call.op = "page"
  /\ call.result.ok
  /\ ds = corpusDesignSystem
  /\ call.name = "DocPage"
  /\ CallerTitle = <<"<", "t", "i", "t", "l", "e", ">", "C", "o", "r", "p", "u", "s", " ", "D", "S", "<", "/", "t", "i", "t", "l", "e", ">">>
  /\ IndexOf(call.result.val[1].rawHtml, PicoLink \o CorpusScript \o CallerTitle) # 0

\* What the caller of the natural page supplied for a head slot key: a
\* sequence holding the value, empty when the caller supplied none.
CallerHead(k) ==
  IF IsNullish(call.options.headSlots) \/ ~IsSet(call.options.headSlots, k) THEN <<>>
  ELSE <<Get(call.options.headSlots, k)>>

ResetStyle == <<"<", "s", "t", "y", "l", "e", ">">> \o NaturalResetCss \o <<"<", "/", "s", "t", "y", "l", "e", ">">>

\* C18: for every head slot key, the page of the natural design system passes
\* on the builder of the caller's value when the caller supplied one and the
\* default of the design system otherwise; so a document whose caller gave a
\* title and no styles holds that title and the default reset style.
HeadMergeLaw ==
  (call.op = "page" /\ ds.name = "natural-ds") =>
    /\ \A i \in 1..Len(HeadKeys) :
         LET k == HeadKeys[i]
         IN Prop(call.passed, k) =
              IF CallerHead(k) # <<>> THEN HeadSlotBuilder(k, CallerHead(k)[1])
              ELSE Prop(naturalDefaultHead, k)
    /\ (call.result.ok /\ CallerHead("title") # <<>> /\ CallerHead("styles") = <<>>) =>
         /\ IndexOf(call.result.val[1].rawHtml,
                    <<"<", "t", "i", "t", "l", "e", ">">> \o CallerHead("title")[1].val \o <<"<", "/", "t", "i", "t", "l", "e", ">">>) # 0
         /\ IndexOf(call.result.val[1].rawHtml, ResetStyle) # 0

HeadMergeLawWitness ==
  /\ call.op = "page"
  /\ ds.name = "natural-ds"
  /\ call.result.ok
  /\ CallerHead("title") = <<JsString(<<"N", "a", "t", "u", "r", "a", "l", " ", "D", "S", " ", "E", "x", "a", "m", "p", "l", "e">>)>>
  /\ CallerHead("styles") = <<>>
  /\ ObjectKeys(call.passed) = <<"styles", "title">>
  /\ IndexOf(call.result.val[1].rawHtml, <<"<", "t", "i", "t", "l", "e", ">", "N", "a", "t", "u", "r", "a", "l", " ", "D", "S", " ", "E", "x", "a", "m", "p", "l", "e", "<", "/", "t", "i", "t", "l", "e", ">">> \o ResetStyle) # 0

(***************************************************************************)
(* Page after page on one natural design system instance                   *)
(***************************************************************************)

\* How many page() calls one behaviour makes on the instance.
MaxCalls == 2

\* The slot maps and head slots of the repeated calls.
AgainSlotMaps ==
  { SlotMap(NaturalKeys, [k \in DOMAIN CorpusText |-> IF k \in supplied THEN CorpusBuilder(k) ELSE Absent]) :
      supplied \in { {"contextHeader", "sidebar", "breadcrumbs", "content", "toc"},
                     {"contextHeader", "sidebar", "breadcrumbs", "content"} } }

\* No page() call made yet on the instance.
NoCallYet == [op |-> "none", nth |-> 0]

InitPages ==
  /\ ds = naturalDesignSystem
  /\ call = NoCallYet
  /\ input = NoInput
  /\ rawPolicy = PermissivePolicy
  /\ held = <<>>
  /\ seen = NothingSeen
  /\ bundler = NoBundler
  /\ BeyondServerIdle

\* One more ds.page("NaturalDoc", {}, options) on the same instance; the
\* call remembers the head slots of the call before it.
PageAgain ==
  /\ call.nth < MaxCalls
  /\ \E slotMap \in AgainSlotMaps, head \in HeadSlotInputs :
       \E options \in {[slots |-> slotMap, headSlots |-> head]} :
       \E r \in {PageOf(ds, "NaturalDoc", options)} :
          /\ call' = [op |-> "page", name |-> "NaturalDoc", options |-> options,
                      passed |-> r.passed, result |-> r.result,
                      nth |-> call.nth + 1,
                      before |-> IF call.nth = 0 THEN <<>> ELSE <<call.options.headSlots>>]
          /\ ds' = r.ds
          /\ UNCHANGED <<rawPolicy, held, seen, input, bundler, beyondServer>>

NextPages == PageAgain

SpecPages == InitPages /\ [][NextPages]_vars

\* C19: page() has no effect beyond its return value: after any sequence of
\* page() calls on one design system instance the registered regions and
\* layouts and the default head content are those the factory built, and
\* the latest call returned what it would have returned as the first call
\* on a fresh instance.
PageLeavesNoTrace ==
  /\ ds.regions = naturalDesignSystem.regions
  /\ ds.layouts = naturalDesignSystem.layouts
  /\ ds.defaultHead = naturalDefaultHead
  /\ ds = naturalDesignSystem
  /\ call.op = "page" =>
       call.result = PageOf(naturalDesignSystem, call.name, call.options).result

\* A second call without head slots, after a call that supplied a title,
\* returns a document without any title.
PageLeavesNoTraceWitness ==
  /\ call.op = "page"
  /\ call.nth = 2
  /\ call.before # <<>>
  /\ call.before[1].ty = "object"
  /\ HasOwn(call.before[1], "title")
  /\ call.options.headSlots = JsUndefined
  /\ call.result.ok
  /\ IndexOf(call.result.val[1].rawHtml, <<"<", "t", "i", "t", "l", "e", ">">>) = 0
  /\ IndexOf(call.result.val[1].rawHtml, ResetStyle) # 0

(***************************************************************************)
(* continuux/bundle.ts: InMemoryBundler and autoTsJsBundler                *)
(***************************************************************************)

\* How many requests one behaviour sends to the middleware.
MaxRequests == 3

\* The file system under the server: what Deno.realPath makes of a candidate
\* path; <<>> when it rejects. Two candidates name the same file.
RealPaths ==
  [app |-> <<"/srv/app.ts">>, link |-> <<"/srv/app.ts">>, bad |-> <<"/srv/bad.ts">>, gone |-> <<>>]

Candidates == DOMAIN RealPaths

Entries == {"/srv/app.ts", "/srv/bad.ts"}

\* isCandidate(url): the module path of a client module request, else false.
NotCandidate == "false"
isCandidate(url) == IF url \in Candidates THEN url ELSE NotCandidate

\* What Deno.bundle can come back with for an entry: output with JavaScript
\* text, a rejection, no output files, or JavaScript that is blank.
BundleOutcomes(entry) ==
  IF entry = "/srv/app.ts" THEN {[kind |-> "output", js |-> "app.js"]}
  ELSE {[kind |-> "rejects"], [kind |-> "noOutput"], [kind |-> "output", js |-> ""]}

\* const cacheKey = "client:" + entry
cacheKey(entry) == <<"client", entry>>

CacheKeys == {cacheKey(e) : e \in Entries}

\* new InMemoryBundler(): an empty #cache.
EmptyCache == [k \in CacheKeys |-> <<>>]

BundleOk(js, key) == [ok |-> TRUE, js |-> js, cacheKey |-> key, status |-> 200]
BundleErr(status, message) == [ok |-> FALSE, status |-> status, message |-> message]

\* jsResponse(body, cacheControl, status): a text/javascript response, the
\* body told by what it carries.
jsResponse(body, cacheControl, status) ==
  [contentType |-> "text/javascript", cacheControl |-> cacheControl,
   status |-> status, body |-> body]

\* jsThrow(title, detail): the module that throws when it is loaded.
jsThrow(title) == [throws |-> title]

\* The options of autoTsJsBundler besides isCandidate: jsThrowStatus is left
\* out or answers 200 whatever status is suggested, notFound is left out or
\* given.
NoJsThrowStatus == "undefined"
BundlerOptions ==
  [jsThrowStatus : {NoJsThrowStatus, "always200"}, notFound : BOOLEAN]

\* jsThrowStatus?.(suggested) ?? suggested
JsThrowStatusOr(options, suggested) ==
  IF options.jsThrowStatus = NoJsThrowStatus THEN suggested ELSE 200

\* The same with the option never looked at.
JsThrowStatusIgnored(options, suggested) == suggested

\* const cached = this.#cache.get(cacheKey); if (cached) ...
CacheHit(cache, key) == cache[key] # <<>> /\ cache[key][1] # ""

\* bundle() up to its await: the result from the cache when #cache holds a
\* non-empty text under the key, <<>> when Deno.bundle is to be started.

bundleStarts(cache, entry, key) ==
  IF CacheHit(cache, key) THEN <<BundleOk(cache[key][1], key)>> ELSE <<>>

\* bundle() after its await, were it to cache what it returns, failures too.
bundleSettlesCachingFailures(cache, entry, key, outcome) ==
  IF outcome.kind = "output" /\ outcome.js # ""
    THEN [result |-> BundleOk(outcome.js, key),
          cache |-> [cache EXCEPT ![key] = <<outcome.js>>]]
  ELSE [result |-> BundleErr(500, "Deno.bundle failed"),
        cache |-> [cache EXCEPT ![key] = <<"failed">>]]

\* bundle() after its await: the result it returns for the outcome of
\* Deno.bundle, and the cache as it leaves it.
bundleSettles(cache, entry, key, outcome) ==
  IF outcome.kind = "rejects"
    THEN [result |-> BundleErr(500, "Deno.bundle failed"), cache |-> cache]
  ELSE IF outcome.kind = "noOutput"
    THEN [result |-> BundleErr(500, "no output files produced"), cache |-> cache]
  ELSE IF outcome.js = ""
    THEN [result |-> BundleErr(500, "JavaScript output is empty"), cache |-> cache]
  ELSE [result |-> BundleOk(outcome.js, key),
        cache |-> [cache EXCEPT ![key] = <<outcome.js>>]]

\* The answer of the middleware to a candidate that does not resolve.
NotFoundResponse(options) ==
  jsResponse(jsThrow("Client module not found"), "no-store", JsThrowStatusOr(options, 404))

\* The response the middleware makes of the result of bundler.bundle.
BundleResponse(options, r) ==
  IF ~r.ok THEN jsResponse(jsThrow("Failed to bundle client module"), "no-store",
                           JsThrowStatusOr(options, r.status))
  ELSE jsResponse(r.js, "no-store", 200)

\* autoTsJsBundler(options): the bundler it creates, no request seen,
\* Deno.bundle never run.
autoTsJsBundler(options) ==
  [kind |-> "autoTsJsBundler",
   options |-> options,
   cache |-> EmptyCache,
   requests |-> <<>>,
   bundled |-> [e \in Entries |-> 0]]

InitBundler ==
  /\ bundler \in {autoTsJsBundler(options) : options \in BundlerOptions}
  /\ ds = NoDs
  /\ call = NoCall
  /\ input = NoInput
  /\ rawPolicy = PermissivePolicy
  /\ held = <<>>
  /\ seen = NothingSeen
  /\ BeyondServerIdle

htmlAndDs == <<rawPolicy, held, call, seen, input, ds, beyondServer>>

\* A request as it enters the middleware: next() and notFound not yet called,
\* no entry resolved, bundle() not called, nothing answered.
Arrived(method, url) ==
  [method |-> method, url |-> url, pc |-> "arrived", next |-> 0, notFound |-> 0,
   entry |-> <<>>, ranBundle |-> FALSE, result |-> <<>>, response |-> <<>>]

\* The middleware up to its first await, were the method not looked at.
MiddlewareEntersAnyMethod(req) ==
  IF isCandidate(req.url) = NotCandidate
    THEN [req EXCEPT !.pc = "next", !.next = @ + 1]
  ELSE [req EXCEPT !.pc = "realPath"]

\* The middleware up to its first await: any request but a GET for a candidate
\* is handed to next(), a candidate waits for Deno.realPath.
MiddlewareEnters(req) ==
  IF req.method # "GET" \/ isCandidate(req.url) = NotCandidate
    THEN [req EXCEPT !.pc = "next", !.next = @ + 1]
  ELSE [req EXCEPT !.pc = "realPath"]

\* A request reaches the middleware, which runs up to its first await.
Request ==
  /\ Len(bundler.requests) < MaxRequests
  /\ \E method \in {"GET", "POST"}, url \in Candidates \cup {"about"} :
       /\ method = "POST" => url = "app"
       /\ bundler' = [bundler EXCEPT
            !.requests = Append(@, MiddlewareEnters(Arrived(method, url)))]
  /\ UNCHANGED htmlAndDs

\* await Deno.realPath(candidate) settles for request i: a rejection calls
\* notFound, if given, and is answered by a throwing module; otherwise the
\* middleware calls bundler.bundle, which answers from the cache or starts
\* Deno.bundle.
RealPathSettles ==
  /\ \E i \in 1..Len(bundler.requests) :
       /\ bundler.requests[i].pc = "realPath"
       /\ LET req == bundler.requests[i]
              resolved == RealPaths[req.url]
          IN IF resolved = <<>>
               THEN bundler' = [bundler EXCEPT !.requests[i] =
                      [req EXCEPT !.pc = "done",
                                  !.notFound = IF bundler.options.notFound THEN @ + 1 ELSE @,
                                  !.response = <<NotFoundResponse(bundler.options)>>]]
             ELSE LET entry == resolved[1]
                      cached == bundleStarts(bundler.cache, entry, cacheKey(entry))
                  IN IF cached # <<>>
                       THEN bundler' = [bundler EXCEPT !.requests[i] =
                              [req EXCEPT !.pc = "done", !.entry = <<entry>>,
                                          !.result = cached,
                                          !.response = <<BundleResponse(bundler.options, cached[1])>>]]
                     ELSE bundler' = [bundler EXCEPT
                              !.requests[i] = [req EXCEPT !.pc = "bundling", !.entry = <<entry>>,
                                                          !.ranBundle = TRUE],
                              !.bundled[entry] = @ + 1]
  /\ UNCHANGED htmlAndDs

\* await Deno.bundle(...) settles for request i: bundle() caches non-blank
\* JavaScript, and the middleware answers.
BundleSettles ==
  /\ \E i \in 1..Len(bundler.requests) :
       /\ bundler.requests[i].pc = "bundling"
       /\ LET req == bundler.requests[i]
          IN \E outcome \in BundleOutcomes(req.entry[1]) :
               LET s == bundleSettles(bundler.cache, req.entry[1], cacheKey(req.entry[1]), outcome)
               IN bundler' = [bundler EXCEPT
                    !.cache = s.cache,
                    !.requests[i] = [req EXCEPT !.pc = "done", !.result = <<s.result>>,
                                                !.response = <<BundleResponse(bundler.options, s.result)>>]]
  /\ UNCHANGED htmlAndDs

NextBundler == Request \/ RealPathSettles \/ BundleSettles

SpecBundler == InitBundler /\ [][NextBundler]_vars

\* C20: autoTsJsBundler bundles each resolved module path at most once per
\* process: whatever GET requests arrive for a module, overlapping or not,
\* Deno.bundle is run at most once for its resolved path and every request
\* after the first is answered from the cache.
BundledOncePerModule ==
  \A e \in Entries : bundler.bundled[e] <= 1

\* The requests the middleware has let go of, by next() or by an answer.
Settled == {i \in 1..Len(bundler.requests) : bundler.requests[i].pc \in {"next", "done"}}

\* Whether a request is one the middleware leaves to next().
NotForBundler(req) == req.method # "GET" \/ req.url \notin Candidates

\* What the middleware answers a settled request with: a throwing module
\* when the path does not resolve or the bundle fails, the bundle otherwise,
\* the status of a throwing module as the given operator makes it.
AnswerLaw(StatusOf(_, _)) ==
  \A i \in 1..Len(bundler.requests) :
    LET req == bundler.requests[i] IN
    /\ req.next = (IF NotForBundler(req) THEN 1 ELSE 0)
    /\ NotForBundler(req) => (req.pc = "next" /\ req.response = <<>> /\ req.notFound = 0)
    /\ (~NotForBundler(req) /\ req.pc = "done") =>
         /\ Len(req.response) = 1
         /\ req.response[1].cacheControl = "no-store"
         /\ req.response[1].contentType = "text/javascript"
         /\ IF RealPaths[req.url] = <<>>
              THEN /\ req.response[1].body = jsThrow("Client module not found")
                   /\ req.response[1].status = StatusOf(bundler.options, 404)
                   /\ req.notFound = (IF bundler.options.notFound THEN 1 ELSE 0)
            ELSE /\ req.notFound = 0
                 /\ IF req.result[1].ok
                      THEN /\ req.response[1].body = req.result[1].js
                           /\ req.response[1].status = 200
                    ELSE /\ req.response[1].body = jsThrow("Failed to bundle client module")
                         /\ req.response[1].status = StatusOf(bundler.options, req.result[1].status)

FailedBundleStep ==
  \A i \in 1..Len(bundler.requests) :
    (/\ bundler.requests[i].pc = "bundling"
     /\ bundler'.requests[i].pc = "done"
     /\ ~bundler'.requests[i].result[1].ok) =>
       /\ bundler'.requests[i].result[1].status = 500
       /\ bundler'.cache = bundler.cache
       /\ bundleStarts(bundler.cache, bundler.requests[i].entry[1],
                       cacheKey(bundler.requests[i].entry[1])) = <<>> =>
            bundleStarts(bundler'.cache, bundler.requests[i].entry[1],
                         cacheKey(bundler.requests[i].entry[1])) = <<>>

FailedBundleLeavesCache ==
  /\ [][FailedBundleStep]_vars
  /\ [](\A i \in 1..Len(bundler.requests) :
          (bundler.requests[i].pc = "done" /\ bundler.requests[i].entry # <<>>
             /\ ~bundler.requests[i].ranBundle) => bundler.requests[i].result[1].ok)

FailedBundleLeavesCacheWitness ==
  \E i, j \in Settled :
    /\ i < j
    /\ bundler.requests[i].entry = <<"/srv/bad.ts">> /\ bundler.requests[j].entry = <<"/srv/bad.ts">>
    /\ bundler.requests[i].ranBundle /\ bundler.requests[j].ranBundle
    /\ ~bundler.requests[i].result[1].ok /\ ~bundler.requests[j].result[1].ok
    /\ bundler.bundled["/srv/bad.ts"] = 2
    /\ bundler.cache = EmptyCache

(***************************************************************************)
(* natural-ds/component/breadcrumbs.ts: NaturalBreadcrumbsBuilder          *)
(***************************************************************************)

\* What a property read finds on Object.prototype when the object itself has
\* no such property: a function or an object, truthy, whose label and href
\* are undefined.
ObjectPrototypeMembers ==
  {"constructor", "toString", "toLocaleString", "valueOf", "hasOwnProperty",
   "isPrototypeOf", "propertyIsEnumerable", "__proto__"}

Inherited == [inherited |-> TRUE, label |-> <<>>, href |-> <<>>]

\* obj[key] of an object literal: its own property, else what its prototype
\* holds under the key, else undefined.
ReadProperty(obj, key) ==
  IF key \in DOMAIN obj THEN <<obj[key]>>
  ELSE IF key \in ObjectPrototypeMembers THEN <<Inherited>>
  ELSE <<>>

\* obj[key], were only the object's own properties looked at.
ReadOwnProperty(obj, key) ==
  IF key \in DOMAIN obj THEN <<obj[key]>> ELSE <<>>

\* a ?? b
OrElse(a, b) == IF a # <<>> THEN a ELSE b

\* segments[i] of the path segments, i counted from 0.
SegmentAt(segments, i) == IF i + 1 \in 1..Len(segments) THEN <<segments[i + 1]>> ELSE <<>>

Crumb(label, href) == [label |-> label, href |-> href]

DocsContext == [label |-> <<"Docs">>, href |-> <<"/docs">>]
GuideSubject == [id |-> "guide", title |-> <<"Guide">>, label |-> <<>>, href |-> <<"/docs/guide">>]
FallbackSubject == [label |-> <<"Subject">>, href |-> <<>>]
FallbackRepo == [label |-> <<"Repository">>, href |-> <<"/repo">>]
ResolvedRepo == [label |-> <<"repo1">>, href |-> <<"/docs/guide/repo1">>]
NavSegment == [label |-> <<"Section">>, href |-> <<"#section">>]

\* The request paths drawn, as their non-empty segments: each position holds
\* a segment the options know, one they do not, or none.
RequestPaths ==
  { <<>> } \cup
  { <<a>> : a \in {"docs", "zzz", "constructor"} } \cup
  { <<a, b>> : a \in {"docs", "zzz", "constructor"}, b \in {"guide", "zzz"} } \cup
  { <<a, b, c>> : a \in {"docs", "zzz", "constructor"}, b \in {"guide", "zzz"},
                  c \in {"repo1", "zzz", "toString"} }

\* The BreadcrumbRequestTrailOptions drawn: every optional member left out
\* or given; the path functions are left out, so the segment indexes are
\* 0, 1 and 2.  A resolver is told by what it resolves.
RequestTrailOptions ==
  [contextMap : {<<>>, <<[docs |-> DocsContext]>>},
   contextNavId : {<<>>, <<"docs">>},
   defaultContextId : {<<>>, <<"docs">>},
   subjects : {<<>>, <<<<GuideSubject>>>>},
   subject : {<<>>, <<FallbackSubject>>},
   navEntryResolver : {<<>>, <<[docs |-> NavSegment]>>},
   repoResolver : {<<>>, <<[repo1 |-> ResolvedRepo]>>},
   repo : {<<>>, <<FallbackRepo>>}]

\* opts.subjects?.find((value) => value.id === subjectId)
FindSubject(subjects, subjectId) ==
  IF subjects = <<>> \/ subjectId = <<>> THEN <<>>
  ELSE LET found == SelectSeq(subjects[1], LAMBDA v : v.id = subjectId[1])
       IN IF found = <<>> THEN <<>> ELSE <<found[1]>>

\* A resolver called on the path segments or on a slug: a segment, or undefined.
Resolve(resolver, key) ==
  IF resolver = <<>> \/ key = <<>> THEN <<>>
  ELSE IF key[1] \in DOMAIN resolver[1] THEN <<resolver[1][key[1]]>> ELSE <<>>

\* withRequestTrail(opts) on the builder whose #segments is before, the
\* request path given by its segments; Read is the property read of
\* opts.contextMap[contextId].  What #segments is afterwards.
RequestTrail(Read(_, _), before, segments, opts) ==
  LET contextId == OrElse(SegmentAt(segments, 0), OrElse(opts.contextNavId, opts.defaultContextId))
      entry == IF contextId # <<>> /\ opts.contextMap # <<>>
                 THEN Read(opts.contextMap[1], contextId[1]) ELSE <<>>
      afterContext == IF entry # <<>>
                        THEN Append(before, Crumb(entry[1].label, entry[1].href))
                      ELSE before
      subjectId == SegmentAt(segments, 1)
      subject == FindSubject(opts.subjects, subjectId)
      afterSubject ==
        IF subject # <<>>
          THEN Append(afterContext,
                      Crumb(OrElse(subject[1].label, OrElse(subject[1].title, <<subject[1].id>>)),
                            subject[1].href))
        ELSE IF opts.subject # <<>>
          THEN Append(afterContext, Crumb(opts.subject[1].label, opts.subject[1].href))
        ELSE afterContext
      navSegment == Resolve(opts.navEntryResolver, SegmentAt(segments, 0))
      afterNav == IF navSegment # <<>> THEN Append(afterSubject, navSegment[1]) ELSE afterSubject
      repoSlug == SegmentAt(segments, 2)
      resolved == Resolve(opts.repoResolver, repoSlug)
      repoSegment == IF resolved = <<>> /\ opts.repo # <<>> THEN opts.repo ELSE resolved
  IN IF repoSegment # <<>> THEN Append(afterNav, repoSegment[1]) ELSE afterNav

withRequestTrail(before, segments, opts) == RequestTrail(ReadProperty, before, segments, opts)

\* new NaturalBreadcrumbsBuilder(ctx): no segment, no call made.
NaturalBreadcrumbsBuilder == [kind |-> "builder", segments |-> <<>>, trail |-> <<>>]

InitCrumbs ==
  /\ crumbs = NaturalBreadcrumbsBuilder
  /\ rawPolicy = PermissivePolicy
  /\ held = <<>>
  /\ call = NoCall
  /\ seen = NothingSeen
  /\ input = NoInput
  /\ ds = NoDs
  /\ bundler = NoBundler
  /\ agent = NoAgent
  /\ document = NoDocument
  /\ customElements = NoRegistry

allButCrumbs == <<rawPolicy, held, call, seen, input, ds, bundler, agent, document, customElements>>

\* append(segment), before any request trail.
AppendSegment ==
  /\ crumbs.trail = <<>>
  /\ Len(crumbs.segments) < 1
  /\ \E segment \in {Crumb(<<"Start">>, <<"/start">>), Crumb(<<"Org">>, <<>>)} :
       crumbs' = [crumbs EXCEPT !.segments = Append(@, segment)]
  /\ UNCHANGED allButCrumbs

\* withRequestTrail(opts), once, on a drawn request and drawn options.
WithRequestTrail ==
  /\ crumbs.trail = <<>>
  /\ \E segments \in RequestPaths, opts \in RequestTrailOptions :
       crumbs' = [crumbs EXCEPT
         !.segments = withRequestTrail(crumbs.segments, segments, opts),
         !.trail = <<[segments |-> segments, opts |-> opts, before |-> crumbs.segments]>>]
  /\ UNCHANGED allButCrumbs

NextCrumbs == AppendSegment \/ WithRequestTrail

SpecCrumbs == InitCrumbs /\ [][NextCrumbs]_vars

\* Whether the request trail was asked for with nothing to fall back on and
\* with path segments that name no context of the context map, no subject
\* of the subjects and no repository the resolver knows.
NothingMatches ==
  /\ crumbs.trail # <<>>
  /\ LET t == crumbs.trail[1]
         contextId == OrElse(SegmentAt(t.segments, 0), OrElse(t.opts.contextNavId, t.opts.defaultContextId))
     IN /\ (contextId = <<>> \/ t.opts.contextMap = <<>>
              \/ contextId[1] \notin DOMAIN t.opts.contextMap[1])
        /\ FindSubject(t.opts.subjects, SegmentAt(t.segments, 1)) = <<>>
        /\ Resolve(t.opts.navEntryResolver, SegmentAt(t.segments, 0)) = <<>>
        /\ Resolve(t.opts.repoResolver, SegmentAt(t.segments, 2)) = <<>>
        /\ t.opts.subject = <<>> /\ t.opts.repo = <<>>

\* C24: withRequestTrail does not raise for request-path segments that match
\* no context, subject or repository: such a segment appends no crumb and
\* the segments appended before the call stay as they were.
UnmatchedSegmentsIgnored ==
  NothingMatches => crumbs.segments = crumbs.trail[1].before

\* The part of it that holds: the segments appended before the call stay,
\* in their order, at the head of #segments.
EarlierSegmentsKept ==
  crumbs.trail # <<>> =>
    /\ Len(crumbs.segments) >= Len(crumbs.trail[1].before)
    /\ SubSeq(crumbs.segments, 1, Len(crumbs.trail[1].before)) = crumbs.trail[1].before

(***************************************************************************)
(* The CX browser user agent: createCxUserAgent                            *)
(***************************************************************************)

\* How many EventSources one run constructs, and how many interactions it
\* posts.
MaxSources == 3
MaxPosts == 2

\* The members of the normalized config the agent's connections and
\* diagnostics depend on.
CxUserAgentConfigs == [diagnostics : BOOLEAN, autoConnect : BOOLEAN]

\* new EventSource(url, init): the constructor returns one or throws.
EventSourceOutcomes == {"opens", "throws"}

\* What fetch(c.postUrl, ...) comes to.
FetchOutcomes == {"ok", "non2xx", "rejects"}

\* What a DOM event's target is: no element, an element with no spec
\* attribute on it or above it, an element findCxTarget finds a spec for.
EventTargets == {"none", "plain", "bound"}

\* diag(kind, data) on a count of the diagnostics of that kind written to
\* the console: nothing is written unless the config asks for diagnostics.
diag(c, count) == IF c.diagnostics THEN count + 1 ELSE count

\* connectSse without its first line.
connectSseAlways(a, outcome) ==
  IF outcome = "throws" THEN [a EXCEPT !.es = 0]
  ELSE [a EXCEPT !.sources = Append(@, "open"), !.es = Len(a.sources) + 1]

\* connectSse(): es is the index of the EventSource held, 0 for null.
connectSse(a, outcome) ==
  IF a.es # 0 THEN a
  ELSE IF outcome = "throws" THEN [a EXCEPT !.es = 0]
  ELSE [a EXCEPT !.sources = Append(@, "open"), !.es = Len(a.sources) + 1]

\* disconnectSse()
disconnectSse(a) ==
  IF a.es = 0 THEN a
  ELSE [a EXCEPT !.sources[a.es] = "closed", !.es = 0]

\* postEnvelope(env) up to its await of fetch: the post:begin diagnostic,
\* the promise pending.
postEnvelopeBegins(a, from) ==
  [a EXCEPT !.posts = Append(@, [from |-> from, promise |-> "pending", fetch |-> "pending",
                                 begin |-> diag(a.config, 0), end |-> 0])]

\* postEnvelope without its try and catch around fetch.
postEnvelopeSettlesUncaught(c, p, outcome) ==
  IF outcome = "rejects"
    THEN [p EXCEPT !.promise = "rejected", !.fetch = outcome]
  ELSE [p EXCEPT !.promise = "fulfilled", !.fetch = outcome, !.end = diag(c, @)]

\* postEnvelope(env) from the settling of fetch on: one post:end diagnostic
\* on each of its three paths, the promise fulfilled.
postEnvelopeSettles(c, p, outcome) ==
  [p EXCEPT !.promise = "fulfilled", !.fetch = outcome, !.end = diag(c, @)]

\* createCxUserAgent(cfg): wire(), then connectSse() when autoConnect.
createCxUserAgent(c, outcome) ==
  LET a == [kind |-> "cx", config |-> c, es |-> 0, sources |-> <<>>, posts |-> <<>>,
            last |-> "create"]
  IN IF c.autoConnect THEN connectSse(a, outcome) ELSE a

InitAgent ==
  /\ agent \in {createCxUserAgent(c, outcome) : c \in CxUserAgentConfigs, outcome \in EventSourceOutcomes}
  /\ rawPolicy = PermissivePolicy
  /\ held = <<>>
  /\ call = NoCall
  /\ seen = NothingSeen
  /\ input = NoInput
  /\ ds = NoDs
  /\ bundler = NoBundler
  /\ crumbs = NoCrumbs
  /\ document = NoDocument
  /\ customElements = NoRegistry

allButAgent == <<rawPolicy, held, call, seen, input, ds, bundler, crumbs, document, customElements>>

\* Whether a call of connectSse can still be drawn within the bound.
MayConnect == agent.es # 0 \/ Len(agent.sources) < MaxSources

\* agent.connect()
Connect ==
  /\ MayConnect
  /\ \E outcome \in EventSourceOutcomes :
       agent' = [connectSse(agent, outcome) EXCEPT !.last = "connect"]
  /\ UNCHANGED allButAgent

\* agent.disconnect(), or the beforeunload listener of wire().
Disconnect ==
  /\ agent' = [disconnectSse(agent) EXCEPT !.last = "disconnect"]
  /\ UNCHANGED allButAgent

\* agent.post(spec, domEvent, el)
Post ==
  /\ MayConnect
  /\ Len(agent.posts) < MaxPosts
  /\ \E outcome \in EventSourceOutcomes :
       agent' = [postEnvelopeBegins(connectSse(agent, outcome), "post") EXCEPT !.last = "post"]
  /\ UNCHANGED allButAgent

\* handleEvent(domEvent, ev), the listener wire() adds to the document.
HandleEvent ==
  /\ MayConnect
  /\ \E target \in EventTargets, outcome \in EventSourceOutcomes :
       IF target = "bound"
         THEN /\ Len(agent.posts) < MaxPosts
              /\ agent' = [postEnvelopeBegins(connectSse(agent, outcome), "event")
                             EXCEPT !.last = "event"]
       ELSE agent' = [agent EXCEPT !.last = "ignored"]
  /\ UNCHANGED allButAgent

\* The fetch of one posted envelope settles and postEnvelope runs on.
FetchSettles ==
  /\ \E i \in 1..Len(agent.posts), outcome \in FetchOutcomes :
       /\ agent.posts[i].promise = "pending"
       /\ agent' = [agent EXCEPT !.posts[i] = postEnvelopeSettles(agent.config, @, outcome),
                                 !.last = "settle"]
  /\ UNCHANGED allButAgent

NextAgent == Connect \/ Disconnect \/ Post \/ HandleEvent \/ FetchSettles

SpecAgent == InitAgent /\ [][NextAgent]_vars

\* The same program in a browser in which every fetch settles.
SpecAgentFair == SpecAgent /\ WF_vars(FetchSettles)

\* The EventSources the agent opened and has not closed.
OpenSources == {i \in 1..Len(agent.sources) : agent.sources[i] = "open"}

\* C22: the agent holds at most one EventSource: the EventSources opened
\* and not closed are none when es is null and the one es refers to
\* otherwise, so the number opened minus the number closed is 0 or 1.
AtMostOneEventSource ==
  /\ Cardinality(OpenSources) \in {0, 1}
  /\ OpenSources = IF agent.es = 0 THEN {} ELSE {agent.es}

\* An EventSource was opened, closed, and another one opened, with an
\* interaction posted on the way.
AtMostOneEventSourceWitness ==
  /\ Len(agent.sources) >= 2
  /\ agent.es = Len(agent.sources)
  /\ agent.sources[1] = "closed"
  /\ agent.posts # <<>>

\* The diagnostics of a post that has run to its end, and of one that has not.
PostDiagnosed(p, begins) ==
  /\ p.begin = begins
  /\ p.end = IF p.promise = "pending" THEN 0 ELSE begins
  /\ p.promise # "rejected"

\* C29 as amended: with diagnostics asked for, each post has written one
\* post:begin and, once its fetch has settled in any of the three ways,
\* one post:end; without them it writes neither.  The promise of
\* postEnvelope is never rejected, and every post comes to its end.
PostBeginThenOneEnd ==
  /\ [](\A i \in 1..Len(agent.posts) :
          PostDiagnosed(agent.posts[i], IF agent.config.diagnostics THEN 1 ELSE 0))
  /\ \A i \in 1..MaxPosts :
       (Len(agent.posts) >= i) ~> (Len(agent.posts) >= i /\ agent.posts[i].promise = "fulfilled")

\* Posts from agent.post and from a DOM event, with diagnostics on, have
\* come to their ends on a rejected fetch and on a non-2xx response.
PostBeginThenOneEndWitness ==
  /\ agent.config.diagnostics
  /\ Len(agent.posts) = 2
  /\ {agent.posts[1].from, agent.posts[2].from} = {"post", "event"}
  /\ {agent.posts[1].fetch, agent.posts[2].fetch} = {"rejects", "non2xx"}
  /\ agent.posts[1].end = 1 /\ agent.posts[2].end = 1

\* C29 as stated: every post writes post:begin and, once settled, one post:end.
EveryPostDiagnosed ==
  \A i \in 1..Len(agent.posts) : PostDiagnosed(agent.posts[i], 1)

(***************************************************************************)
(* html/browser-ua: the JunxionElement base class and the runtime's        *)
(* enhance()                                                               *)
(***************************************************************************)

\* How often one run renders the element, and how many fetches its clicks
\* start.
MaxRerenders == 2
MaxFlights == 2

SwapModes == {"inner", "outer", "append", "prepend"}

\* What render() of the subclass yields: a div with id "panel" and a button
\* with data-on:click, data-target="#panel" and data-swap; the button's
\* action parses or does not, and the button carries data-sse or not.
RenderTemplates == [sse : BOOLEAN, swap : SwapModes, action : BOOLEAN]

OnClick == "data-on:click"
BoundOnClick == "data-jx-bound:data-on:click"

\* An element: its attributes, the click listeners added to it, the index of
\* the EventSource its __jxSseHandle closes (0: no handle), the fragments
\* swapped into it, and whether wireOnHandlers has come by it once or more
\* often.
DomElement(tagName, attributes) ==
  [tag |-> tagName, attrs |-> attributes, listeners |-> 0, handle |-> 0, content |-> <<>>, scans |-> 0]

\* The custom element itself is the first element of the model.
HostId == 1

\* The children of a root are elements, by their index, and the fragments
\* of responses, by the negated number of the request.
ElementsOf(children) == SelectSeq(children, LAMBDA n : n > 0)

\* root.querySelectorAll("*") for the root the element renders into: the
\* shadow root or the element itself, its descendants in both cases.
RootElements(d) == ElementsOf(d.root)

\* The same for the document: the connected element and what it holds in
\* the light tree, nothing of a shadow tree.
DocumentElements(d) ==
  IF ~d.connected THEN <<>>
  ELSE IF d.useShadow THEN <<HostId>>
  ELSE <<HostId>> \o ElementsOf(d.root)

\* The body of wireOnHandlers' loops without the double-binding guard.
wireOnHandlerRebinding(d, id) ==
  LET element == d.nodes[id]
  IN IF OnClick \notin element.attrs THEN d
     ELSE [d EXCEPT !.nodes[id].attrs = @ \cup {BoundOnClick},
                    !.nodes[id].scans = IF @ < 2 THEN @ + 1 ELSE @,
                    !.nodes[id].listeners = IF d.template.action THEN @ + 1 ELSE @]

\* The body of wireOnHandlers' loops for one element: its data-on:click
\* attribute is bound once, and a listener added when the action parses.
wireOnHandler(d, id) ==
  LET element == d.nodes[id]
  IN IF OnClick \notin element.attrs THEN d
     ELSE IF BoundOnClick \in element.attrs
       THEN [d EXCEPT !.nodes[id].scans = IF @ < 2 THEN @ + 1 ELSE @]
     ELSE [d EXCEPT !.nodes[id].attrs = @ \cup {BoundOnClick},
                    !.nodes[id].scans = IF @ < 2 THEN @ + 1 ELSE @,
                    !.nodes[id].listeners = IF d.template.action THEN @ + 1 ELSE @]

RECURSIVE wireOnHandlers(_, _)
wireOnHandlers(d, ids) ==
  IF ids = <<>> THEN d ELSE wireOnHandlers(wireOnHandler(d, Head(ids)), Tail(ids))

\* The body of wireSse's loop for one element: an element with data-sse
\* not yet marked is marked, an EventSource opened and its handle stored
\* on the element.
wireSseElement(d, id) ==
  LET element == d.nodes[id]
  IN IF "data-sse" \notin element.attrs \/ "data-jx-sse" \in element.attrs THEN d
     ELSE [d EXCEPT !.nodes[id].attrs = @ \cup {"data-jx-sse"},
                    !.nodes[id].handle = Len(d.sources) + 1,
                    !.sources = Append(@, [owner |-> id, state |-> "open"])]

RECURSIVE wireSse(_, _)
wireSse(d, ids) ==
  IF ids = <<>> THEN d ELSE wireSse(wireSseElement(d, Head(ids)), Tail(ids))

\* enhance({root}) on the elements the root's querySelectorAll finds.
enhance(d, ids) == wireSse(wireOnHandlers(d, ids), ids)

\* closeSseIfPresent(el)
closeSseIfPresent(d, id) ==
  IF d.nodes[id].handle = 0 THEN d
  ELSE [d EXCEPT !.sources[d.nodes[id].handle].state = "closed"]

\* rerender(): the root's children are replaced by what render() yields,
\* then enhance({root: this.#root}).
rerender(d) ==
  LET panel == Len(d.nodes) + 1
      button == Len(d.nodes) + 2
      rendered ==
        [d EXCEPT
           !.nodes = @ \o << DomElement("div", {}),
                             DomElement("button",
                               {OnClick} \cup (IF d.template.sse THEN {"data-sse"} ELSE {})) >>,
           !.root = <<panel, button>>,
           !.renders = @ + 1]
  IN enhance(rendered, RootElements(rendered))

\* resolveTarget(origin, "#panel"): the first element of the document with
\* that id, else the origin.
resolveTarget(d, origin) ==
  LET found == SelectSeq(DocumentElements(d), LAMBDA n : d.nodes[n].tag = "div")
  IN IF found = <<>> THEN origin ELSE found[1]

\* The children of a parent with the target replaced by a fragment.
ReplaceChild(children, target, frag) ==
  [i \in 1..Len(children) |-> IF children[i] = target THEN frag ELSE children[i]]

\* swapFragment, every mode swapping as append does.
swapFragmentAppending(d, target, frag, mode) ==
  [d EXCEPT !.nodes[target].content = Append(@, frag)]

\* swapFragment(target, frag, mode)
swapFragment(d, target, frag, mode) ==
  IF mode = "outer"
    THEN IF \E i \in 1..Len(d.root) : d.root[i] = target
           THEN [d EXCEPT !.root = ReplaceChild(@, target, 0 - frag)]
         ELSE d
  ELSE IF mode = "append" THEN [d EXCEPT !.nodes[target].content = Append(@, frag)]
  ELSE IF mode = "prepend" THEN [d EXCEPT !.nodes[target].content = <<frag>> \o @]
  ELSE [d EXCEPT !.nodes[target].content = <<frag>>]

\* fetchAndSwap(origin, method, url) up to its await of fetch.
fetchAndSwapBegins(d, origin) ==
  [d EXCEPT !.flights = Append(@, [origin |-> origin, target |-> resolveTarget(d, origin),
                                   mode |-> d.template.swap, pc |-> "fetching"])]

RECURSIVE Dispatch(_, _, _)
\* The click listeners of an element called one after the other.
Dispatch(d, origin, listeners) ==
  IF listeners = 0 THEN d ELSE Dispatch(fetchAndSwapBegins(d, origin), origin, listeners - 1)

\* fetchAndSwap from the arrival of the response text on: the fragment of
\* request f swapped into the target, then enhance() on the document.
fetchAndSwapArrives(d, f) ==
  LET swapped == swapFragment(d, d.flights[f].target, f, d.flights[f].mode)
      arrived == [swapped EXCEPT !.flights[f].pc = "swapped", !.arrived = Append(@, f)]
  IN enhance(arrived, DocumentElements(arrived))

\* The element constructed and not yet connected.
JunxionElement(useShadow, hostSse, template) ==
  [kind |-> "dom", useShadow |-> useShadow, template |-> template, connected |-> FALSE,
   nodes |-> <<DomElement("junxion-element", IF hostSse THEN {"data-sse"} ELSE {})>>,
   root |-> <<>>, sources |-> <<>>, flights |-> <<>>, arrived |-> <<>>, renders |-> 0,
   last |-> [op |-> "new", started |-> 0]]

InitElement ==
  /\ document \in {JunxionElement(useShadow, hostSse, template) :
                     useShadow \in BOOLEAN, hostSse \in BOOLEAN, template \in RenderTemplates}
  /\ rawPolicy = PermissivePolicy
  /\ held = <<>>
  /\ call = NoCall
  /\ seen = NothingSeen
  /\ input = NoInput
  /\ ds = NoDs
  /\ bundler = NoBundler
  /\ crumbs = NoCrumbs
  /\ agent = NoAgent
  /\ customElements = NoRegistry

allButDocument == <<rawPolicy, held, call, seen, input, ds, bundler, crumbs, agent, customElements>>

Did(d, op, started) == [d EXCEPT !.last = [op |-> op, started |-> started]]

\* The element is inserted into the document: connectedCallback().
ConnectedCallback ==
  /\ ~document.connected
  /\ document.renders < MaxRerenders
  /\ document' = Did(rerender([document EXCEPT !.connected = TRUE]), "connected", 0)
  /\ UNCHANGED allButDocument

\* The element is removed from the document: disconnectedCallback().
DisconnectedCallback ==
  /\ document.connected
  /\ document' = Did(closeSseIfPresent([document EXCEPT !.connected = FALSE], HostId),
                     "disconnected", 0)
  /\ UNCHANGED allButDocument

\* setState(patch)
SetState ==
  /\ document.renders < MaxRerenders
  /\ document' = Did(rerender(document), "setState", 0)
  /\ UNCHANGED allButDocument

\* The page calls enhance() with no root.
EnhanceDocument ==
  /\ document' = Did(enhance(document, DocumentElements(document)), "enhance", 0)
  /\ UNCHANGED allButDocument

\* A click on a button the connected element shows.
Click ==
  /\ document.connected
  /\ \E origin \in {document.root[i] : i \in 1..Len(document.root)} :
       /\ origin > 0
       /\ document.nodes[origin].tag = "button"
       /\ Len(document.flights) + document.nodes[origin].listeners <= MaxFlights
       /\ document' = Did(Dispatch(document, origin, document.nodes[origin].listeners),
                          "click", document.nodes[origin].listeners)
  /\ UNCHANGED allButDocument

\* The response of one request arrives, or its fetch rejects and the
\* listener's catch logs the failure.
ResponseArrives ==
  /\ \E f \in 1..Len(document.flights), outcome \in {"html", "rejects"} :
       /\ document.flights[f].pc = "fetching"
       /\ document' = IF outcome = "html"
                        THEN Did(fetchAndSwapArrives(document, f), "arrives", 0)
                      ELSE Did([document EXCEPT !.flights[f].pc = "failed"], "failed", 0)
  /\ UNCHANGED allButDocument

NextElement ==
  \/ ConnectedCallback
  \/ DisconnectedCallback
  \/ SetState
  \/ EnhanceDocument
  \/ Click
  \/ ResponseArrives

SpecElement == InitElement /\ [][NextElement]_vars

\* C23: while the element is disconnected from the document, no EventSource
\* that enhance() opened for it, on the element or on what it rendered, is
\* open.
DisconnectedElementHoldsNoSse ==
  ~document.connected => \A s \in 1..Len(document.sources) : document.sources[s].state = "closed"

\* The part of it that holds: disconnecting closes the EventSource whose
\* handle is on the element itself.
DisconnectedElementClosesOwnSse ==
  ~document.connected =>
    \A s \in 1..Len(document.sources) :
      document.sources[s].owner = HostId => document.sources[s].state = "closed"

\* C25: each element's data-on:click attribute has at most one listener,
\* and one click starts at most one fetch.
AtMostOneListener ==
  /\ \A n \in 1..Len(document.nodes) : document.nodes[n].listeners <= 1
  /\ document.last.started <= 1

\* A button bound once was come by again by a later enhance(), and a click
\* on it started one fetch.
AtMostOneListenerWitness ==
  /\ document.last = [op |-> "click", started |-> 1]
  /\ \E n \in 1..Len(document.nodes) :
       /\ document.nodes[n].scans = 2
       /\ document.nodes[n].listeners = 1
       /\ document.flights[Len(document.flights)].origin = n

\* The requests whose responses were swapped into a target, in the order
\* of their arrival.
ArrivedAt(target) ==
  SelectSeq(document.arrived, LAMBDA f : document.flights[f].target = target)

\* C30: with inner swap, a target that responses have arrived for shows the
\* fragment of the response that arrived last and nothing else.
LastArrivedShown ==
  document.template.swap = "inner" =>
    \A t \in 1..Len(document.nodes) :
      ArrivedAt(t) # <<>> => document.nodes[t].content = <<ArrivedAt(t)[Len(ArrivedAt(t))]>>

\* Two requests of one origin were in flight together and the one issued
\* first arrived last: its fragment is what the target shows.
LastArrivedShownWitness ==
  /\ document.template.swap = "inner"
  /\ document.arrived = <<2, 1>>
  /\ document.flights[1].origin = document.flights[2].origin
  /\ document.flights[1].target = document.flights[2].target
  /\ document.nodes[document.flights[1].target].content = <<1>>

(***************************************************************************)
(* continuux/custom-element-aide.js: customElementAide                     *)
(***************************************************************************)

\* How many calls of register() and instance() one run makes.
MaxRegisters == 3

IsUpperCase(c) == CharCode(c) >= 65 /\ CharCode(c) <= 90
IsLowerOrDigit(c) ==
  \/ CharCode(c) >= 97 /\ CharCode(c) <= 122
  \/ CharCode(c) >= 48 /\ CharCode(c) <= 57

\* .replace(/([a-z0-9])([A-Z])/g, "$1-$2")
RECURSIVE DashCamel(_)
DashCamel(s) ==
  IF Len(s) < 2 THEN s
  ELSE IF IsLowerOrDigit(s[1]) /\ IsUpperCase(s[2]) THEN <<s[1], "-">> \o DashCamel(Tail(s))
  ELSE <<s[1]>> \o DashCamel(Tail(s))

\* .replace(/([A-Z]+)([A-Z][a-z0-9]+)/g, "$1-$2")
RECURSIVE DashAcronym(_)
DashAcronym(s) ==
  IF Len(s) < 3 THEN s
  ELSE IF IsUpperCase(s[1]) /\ IsUpperCase(s[2]) /\ IsLowerOrDigit(s[3])
    THEN <<s[1], "-">> \o DashAcronym(Tail(s))
  ELSE <<s[1]>> \o DashAcronym(Tail(s))

\* What is left of a string after the characters of a set at its head.
RECURSIVE DropWhile(_, _)
DropWhile(s, cs) == IF s # <<>> /\ Head(s) \in cs THEN DropWhile(Tail(s), cs) ELSE s

\* .replace(/[cs]+/g, "-")
RECURSIVE DashRuns(_, _)
DashRuns(s, cs) ==
  IF s = <<>> THEN <<>>
  ELSE IF Head(s) \in cs THEN <<"-">> \o DashRuns(DropWhile(s, cs), cs)
  ELSE <<Head(s)>> \o DashRuns(Tail(s), cs)

\* .replace(/^-+/, "").replace(/-+$/, "")
RECURSIVE DropDashesAtEnd(_)
DropDashesAtEnd(s) ==
  IF s # <<>> /\ s[Len(s)] = "-" THEN DropDashesAtEnd(SubSeq(s, 1, Len(s) - 1)) ELSE s

toKebabCase(s) ==
  LET withDashes == toLowerCase(DashRuns(DashAcronym(DashCamel(trim(s))), {" ", "\t", "\n", "\r", "_"}))
  IN DropDashesAtEnd(DropWhile(DashRuns(withDashes, {"-"}), {"-"}))

normalizeCustomElementName(name) ==
  LET n == toKebabCase(name)
  IN IF n = <<>> THEN <<"x", "-", "e", "l", "e", "m", "e", "n", "t">>
     ELSE IF \E i \in 1..Len(n) : n[i] = "-" THEN n
     ELSE <<"x", "-">> \o n

\* ctor.name of a class is a string.
deriveNameFromCtor(ctor) == normalizeCustomElementName(ctor.name)

\* The name customElementAide(ctor, name) resolves; the name argument is
\* left out (<<>>) or a string.
ResolvedName(ctor, name) ==
  normalizeCustomElementName(
    IF name # <<>> /\ trim(name[1]) # <<>> THEN name[1] ELSE deriveNameFromCtor(ctor))

\* The classes drawn: two classes of one name and a class whose name has
\* no second word.
CounterCe == [class |-> 1, name |-> <<"C", "o", "u", "n", "t", "e", "r", "C", "e">>]
OtherCounterCe == [class |-> 2, name |-> <<"C", "o", "u", "n", "t", "e", "r", "C", "e">>]
Widget == [class |-> 3, name |-> <<"W", "i", "d", "g", "e", "t">>]

\* The name arguments drawn: none, a blank one, a name that is kebab case
\* already and one that is not.
ElementNames ==
  { <<>>, << <<" ">> >>,
    << <<"c", "o", "u", "n", "t", "e", "r", "-", "c", "e">> >>,
    << <<"X", "_", "W", "i", "d", "g", "e", "t">> >> }

\* customElementAide(ctor, name)
customElementAide(ctor, name) == [name |-> ResolvedName(ctor, name), ctor |-> ctor]

Aides == {customElementAide(ctor, name) : ctor \in {CounterCe, OtherCounterCe, Widget}, name \in ElementNames}

\* customElements.get(name): the class defined under the name, or undefined.
RegistryGet(reg, name) ==
  LET found == {d \in reg.defined : d.name = name}
  IN IF found = {} THEN <<>> ELSE <<(CHOOSE d \in found : TRUE).ctor>>

\* customElements.define(name, ctor) of the browser: a name or a class
\* defined already raises NotSupportedError.
RegistryDefine(reg, name, ctor) ==
  IF \E d \in reg.defined : d.name = name \/ d.ctor = ctor
    THEN [reg EXCEPT !.thrown = TRUE, !.defineCalls = @ + 1]
  ELSE [reg EXCEPT !.defined = @ \cup {[name |-> name, ctor |-> ctor]}, !.defineCalls = @ + 1]

\* instance(): document.createElement(name) once the name is defined, else
\* new ctor(), which the browser lets only a defined class do.
instance(reg, aide) ==
  IF reg.thrown THEN reg
  ELSE IF RegistryGet(reg, aide.name) # <<>>
    THEN [reg EXCEPT !.instances = Append(@, RegistryGet(reg, aide.name)[1])]
  ELSE IF \E d \in reg.defined : d.ctor = aide.ctor
    THEN [reg EXCEPT !.instances = Append(@, aide.ctor)]
  ELSE [reg EXCEPT !.thrown = TRUE]

\* register() without the look at what is defined.
registerAlwaysDefining(reg, aide) == instance(RegistryDefine(reg, aide.name, aide.ctor), aide)

\* register()
register(reg, aide) ==
  LET existing == RegistryGet(reg, aide.name)
  IN IF existing = <<>> THEN instance(RegistryDefine(reg, aide.name, aide.ctor), aide)
     ELSE IF existing[1] # aide.ctor THEN [reg EXCEPT !.thrown = TRUE]
     ELSE instance(reg, aide)

\* The registry of a page that has defined nothing; thrown and defineCalls
\* tell of the call made last, instances holds the class of every element
\* made.
EmptyRegistry ==
  [kind |-> "registry", defined |-> {}, instances |-> <<>>, calls |-> <<>>,
   thrown |-> FALSE, defineCalls |-> 0]

InitRegistry ==
  /\ customElements = EmptyRegistry
  /\ rawPolicy = PermissivePolicy
  /\ held = <<>>
  /\ call = NoCall
  /\ seen = NothingSeen
  /\ input = NoInput
  /\ ds = NoDs
  /\ bundler = NoBundler
  /\ crumbs = NoCrumbs
  /\ agent = NoAgent
  /\ document = NoDocument

allButRegistry == <<rawPolicy, held, call, seen, input, ds, bundler, crumbs, agent, document>>

\* The registry as a call finds it.
BeforeCall(reg) == [reg EXCEPT !.thrown = FALSE, !.defineCalls = 0]

\* What a call has made of the registry, written to the list of calls.
AfterCall(op, aide, before, after) ==
  [after EXCEPT !.calls = Append(@, [op |-> op, aide |-> aide, existing |-> RegistryGet(before, aide.name),
                                     defined |-> before.defined, made |-> Len(before.instances),
                                     defineCalls |-> after.defineCalls, thrown |-> after.thrown])]

\* aide.register()
Register ==
  /\ Len(customElements.calls) < MaxRegisters
  /\ \E aide \in Aides :
       customElements' = AfterCall("register", aide, customElements,
                                   register(BeforeCall(customElements), aide))
  /\ UNCHANGED allButRegistry

\* aide.instance()
Instance ==
  /\ Len(customElements.calls) < MaxRegisters
  /\ \E aide \in Aides :
       customElements' = AfterCall("instance", aide, customElements,
                                   instance(BeforeCall(customElements), aide))
  /\ UNCHANGED allButRegistry

NextRegistry == Register \/ Instance

SpecRegistry == InitRegistry /\ [][NextRegistry]_vars

\* What the registry and the list of elements were after the i-th call.
DefinedAfter(i) ==
  IF i = Len(customElements.calls) THEN customElements.defined
  ELSE customElements.calls[i + 1].defined

MadeAfter(i) ==
  IF i = Len(customElements.calls) THEN Len(customElements.instances)
  ELSE customElements.calls[i + 1].made

\* C26: register() calls customElements.define only for a name not yet
\* defined; for a name defined with the aide's constructor it calls
\* define not at all and returns a new instance of the constructor; for a
\* name defined with another constructor it throws and the registry is as
\* it was.
RegisterDefinesOnce ==
  \A i \in 1..Len(customElements.calls) :
    LET c == customElements.calls[i]
    IN c.op = "register" =>
         /\ c.defineCalls = IF c.existing = <<>> THEN 1 ELSE 0
         /\ c.existing = <<c.aide.ctor>> =>
              /\ ~c.thrown
              /\ MadeAfter(i) = c.made + 1
              /\ customElements.instances[c.made + 1] = c.aide.ctor
              /\ DefinedAfter(i) = c.defined
         /\ (c.existing # <<>> /\ c.existing # <<c.aide.ctor>>) =>
              /\ c.thrown
              /\ MadeAfter(i) = c.made
              /\ DefinedAfter(i) = c.defined

\* One aide registered twice and, between the two, an aide of another
\* class for the same name: one definition, two elements, one throw.
RegisterDefinesOnceWitness ==
  /\ Len(customElements.calls) = 3
  /\ \A i \in 1..3 : customElements.calls[i].op = "register"
  /\ customElements.calls[1].aide = customElements.calls[3].aide
  /\ customElements.calls[2].aide.name = customElements.calls[1].aide.name
  /\ customElements.calls[2].aide.ctor # customElements.calls[1].aide.ctor
  /\ customElements.calls[2].thrown
  /\ Cardinality(customElements.defined) = 1
  /\ Len(customElements.instances) = 2

====
